---- MODULE Spec2Model ----
(***************************************************************************)
(* Model of the ANS processor of aptos-indexer-processors                  *)
(* (rust/processor/src/processors/ans_processor.rs) and of the extractors  *)
(* it shares its conventions with.                                         *)
(*                                                                         *)
(* A table is the set of its stored rows; a row is a record of its         *)
(* columns.  The column inserted_at is filled by the database and is not a *)
(* field of the row values the processor builds, so rows do not carry it.  *)
(***************************************************************************)
EXTENDS Integers, Sequences, FiniteSets, TLC

\* ------------------------------------------------------------------------
\* Bounds
\* ------------------------------------------------------------------------
MaxVersion == 2        \* transaction versions are 1..MaxVersion
MaxChunk == 1          \* rows per chunk (per_table_chunk_sizes)
MaxStatements == 2     \* statements executed in a behaviour of SpecDb

Versions == 1..MaxVersion
Domains == {"d1", "d2"}
Addresses == {"a1", "a2"}
NoPolicy == "NULL"     \* subdomain_expiration_policy: None
Policies == {NoPolicy, "1"}

CurrentTables ==
    {"current_ans_lookup", "current_ans_primary_name",
     "current_ans_lookup_v2", "current_ans_primary_name_v2"}
ActivityTables ==
    {"ans_lookup", "ans_primary_name", "ans_lookup_v2", "ans_primary_name_v2"}
Tables == CurrentTables \cup ActivityTables

VARIABLES
    db,        \* db[t]: the rows stored in table t
    last,      \* the last statement executed: table, rows, table before it
    nstmts,    \* number of statements executed (SpecDb)
    pc,        \* where the processor is
    accs,      \* the accumulators of parse_ans
    versions,  \* the versions of the transactions parse_ans has gone through
    parsed,    \* the row sets parse_ans returned, by table
    coin,      \* what CoinActivity::from_transaction returned last
    call,      \* the last call of an extractor or decoder: function, arguments
    ret,       \* what the last call of a token extractor or a decoder returned
    chain,     \* chain[v]: the transaction of version v
    deprecated_tables,  \* the TableFlags of the processor's configuration
    runs,      \* calls of process_transactions so far
    transactions,  \* the batch of the current call
    tasks,     \* the chunk writes insert_to_db has issued
    result,    \* what the current call returned
    base,      \* the tables when the current call began
    prev,      \* the previous call: batch, tables when it began, result
    failures,  \* chunk writes that have failed so far
    outlived,  \* a chunk write of the current call completed after a failure
    applied    \* applied[t]: the rows of the chunk writes executed on t

vars == <<db, last, nstmts, pc, accs, versions, parsed, coin, call, ret, chain,
          deprecated_tables, runs, transactions, tasks, result, base, prev,
          failures, outlived, applied>>
dbVars == <<db, last, nstmts>>
parseVars == <<pc, accs, versions, parsed>>
runVars == <<chain, deprecated_tables, runs, transactions, tasks, result,
             base, prev, failures, outlived, applied>>

NoStatement == [table |-> "none", items |-> <<>>, before |-> {}]
NoCall == [fn |-> "none"]

\* ------------------------------------------------------------------------
\* Conflict targets: the on_conflict(...) column lists
\* ------------------------------------------------------------------------
\* .on_conflict((domain, subdomain))
current_ans_lookup_conflict(r) == <<r.domain, r.subdomain>>
\* .on_conflict(registered_address)
current_ans_primary_name_conflict(r) == <<r.registered_address>>
\* .on_conflict((domain, subdomain, token_standard))
current_ans_lookup_v2_conflict(r) == <<r.domain, r.subdomain, r.token_standard>>
\* .on_conflict((registered_address, token_standard))
current_ans_primary_name_v2_conflict(r) == <<r.registered_address, r.token_standard>>
\* .on_conflict((transaction_version, write_set_change_index))
activity_conflict(r) == <<r.transaction_version, r.write_set_change_index>>

ConflictTarget(t, r) ==
    CASE t = "current_ans_lookup" -> current_ans_lookup_conflict(r)
      [] t = "current_ans_primary_name" -> current_ans_primary_name_conflict(r)
      [] t = "current_ans_lookup_v2" -> current_ans_lookup_v2_conflict(r)
      [] t = "current_ans_primary_name_v2" -> current_ans_primary_name_v2_conflict(r)
      [] OTHER -> activity_conflict(r)

\* ------------------------------------------------------------------------
\* WHERE clauses of the conditional upserts
\* ------------------------------------------------------------------------
current_ans_lookup_where_stale(stored, excluded) == TRUE
current_ans_lookup_where_strict(stored, excluded) ==
    stored.last_transaction_version < excluded.last_transaction_version
current_ans_lookup_where(stored, excluded) ==
    stored.last_transaction_version <= excluded.last_transaction_version

current_ans_primary_name_where_stale(stored, excluded) == TRUE
current_ans_primary_name_where(stored, excluded) ==
    stored.last_transaction_version <= excluded.last_transaction_version

current_ans_lookup_v2_where_stale(stored, excluded) == TRUE
current_ans_lookup_v2_where(stored, excluded) ==
    stored.last_transaction_version <= excluded.last_transaction_version

current_ans_primary_name_v2_where(stored, excluded) ==
    stored.last_transaction_version <= excluded.last_transaction_version

\* ------------------------------------------------------------------------
\* SET lists of the do_update() statements
\* ------------------------------------------------------------------------
current_ans_lookup_set(stored, excluded) ==
    [stored EXCEPT !.registered_address = excluded.registered_address,
                   !.expiration_timestamp = excluded.expiration_timestamp,
                   !.last_transaction_version = excluded.last_transaction_version,
                   !.token_name = excluded.token_name,
                   !.is_deleted = excluded.is_deleted]

current_ans_primary_name_set(stored, excluded) ==
    [stored EXCEPT !.domain = excluded.domain,
                   !.subdomain = excluded.subdomain,
                   !.token_name = excluded.token_name,
                   !.is_deleted = excluded.is_deleted,
                   !.last_transaction_version = excluded.last_transaction_version]

current_ans_lookup_v2_set(stored, excluded) ==
    [stored EXCEPT !.registered_address = excluded.registered_address,
                   !.expiration_timestamp = excluded.expiration_timestamp,
                   !.last_transaction_version = excluded.last_transaction_version,
                   !.token_name = excluded.token_name,
                   !.is_deleted = excluded.is_deleted,
                   !.subdomain_expiration_policy = excluded.subdomain_expiration_policy]

ans_lookup_v2_set(stored, excluded) ==
    [stored EXCEPT !.subdomain_expiration_policy = excluded.subdomain_expiration_policy]

current_ans_primary_name_v2_set(stored, excluded) ==
    [stored EXCEPT !.domain = excluded.domain,
                   !.subdomain = excluded.subdomain,
                   !.token_name = excluded.token_name,
                   !.is_deleted = excluded.is_deleted,
                   !.last_transaction_version = excluded.last_transaction_version]

\* ------------------------------------------------------------------------
\* One VALUES row of each insert statement
\* ------------------------------------------------------------------------
Stored(t, T, r) == {s \in T : ConflictTarget(t, s) = ConflictTarget(t, r)}
TheStored(t, T, r) == CHOOSE s \in Stored(t, T, r) : TRUE

\* on_conflict(..).do_nothing()
DoNothingUpdates(t, T, r) == (T \ Stored(t, T, r)) \cup {r}
DoNothing(t, T, r) == IF Stored(t, T, r) = {} THEN T \cup {r} ELSE T

\* the upsert with a row marked deleted removing the stored row
current_ans_lookup_row_deletes(T, r) ==
    LET t == "current_ans_lookup" IN
    IF r.is_deleted THEN T \ Stored(t, T, r)
    ELSE (T \ Stored(t, T, r)) \cup {r}
current_ans_lookup_row(T, r) ==
    LET t == "current_ans_lookup" IN
    IF Stored(t, T, r) = {} THEN T \cup {r}
    ELSE LET s == TheStored(t, T, r) IN
         IF current_ans_lookup_where(s, r)
         THEN (T \ {s}) \cup {current_ans_lookup_set(s, r)} ELSE T

current_ans_primary_name_row(T, r) ==
    LET t == "current_ans_primary_name" IN
    IF Stored(t, T, r) = {} THEN T \cup {r}
    ELSE LET s == TheStored(t, T, r) IN
         IF current_ans_primary_name_where(s, r)
         THEN (T \ {s}) \cup {current_ans_primary_name_set(s, r)} ELSE T

current_ans_lookup_v2_row(T, r) ==
    LET t == "current_ans_lookup_v2" IN
    IF Stored(t, T, r) = {} THEN T \cup {r}
    ELSE LET s == TheStored(t, T, r) IN
         IF current_ans_lookup_v2_where(s, r)
         THEN (T \ {s}) \cup {current_ans_lookup_v2_set(s, r)} ELSE T

current_ans_primary_name_v2_row(T, r) ==
    LET t == "current_ans_primary_name_v2" IN
    IF Stored(t, T, r) = {} THEN T \cup {r}
    ELSE LET s == TheStored(t, T, r) IN
         IF current_ans_primary_name_v2_where(s, r)
         THEN (T \ {s}) \cup {current_ans_primary_name_v2_set(s, r)} ELSE T

ans_lookup_row_updates(T, r) == DoNothingUpdates("ans_lookup", T, r)
ans_lookup_row(T, r) == DoNothing("ans_lookup", T, r)

ans_primary_name_row(T, r) == DoNothing("ans_primary_name", T, r)

\* on_conflict(..).do_update().set((inserted_at, subdomain_expiration_policy)),
\* no WHERE clause
ans_lookup_v2_row(T, r) ==
    LET t == "ans_lookup_v2" IN
    IF Stored(t, T, r) = {} THEN T \cup {r}
    ELSE LET s == TheStored(t, T, r) IN (T \ {s}) \cup {ans_lookup_v2_set(s, r)}

ans_primary_name_v2_row(T, r) == DoNothing("ans_primary_name_v2", T, r)

InsertRow(t, T, r) ==
    CASE t = "current_ans_lookup" -> current_ans_lookup_row(T, r)
      [] t = "ans_lookup" -> ans_lookup_row(T, r)
      [] t = "current_ans_primary_name" -> current_ans_primary_name_row(T, r)
      [] t = "ans_primary_name" -> ans_primary_name_row(T, r)
      [] t = "current_ans_lookup_v2" -> current_ans_lookup_v2_row(T, r)
      [] t = "ans_lookup_v2" -> ans_lookup_v2_row(T, r)
      [] t = "current_ans_primary_name_v2" -> current_ans_primary_name_v2_row(T, r)
      [] t = "ans_primary_name_v2" -> ans_primary_name_v2_row(T, r)

\* diesel::insert_into(table).values(items): the rows are proposed for
\* insertion one after the other within the statement
RECURSIVE InsertValues(_, _, _)
InsertValues(t, T, items) ==
    IF items = <<>> THEN T
    ELSE InsertValues(t, InsertRow(t, T, Head(items)), Tail(items))

\* The eight statements
insert_current_ans_lookups_query(T, item_to_insert) ==
    InsertValues("current_ans_lookup", T, item_to_insert)
insert_ans_lookups_query(T, item_to_insert) ==
    InsertValues("ans_lookup", T, item_to_insert)
insert_current_ans_primary_names_query(T, item_to_insert) ==
    InsertValues("current_ans_primary_name", T, item_to_insert)
insert_ans_primary_names_query(T, item_to_insert) ==
    InsertValues("ans_primary_name", T, item_to_insert)
insert_current_ans_lookups_v2_query(T, item_to_insert) ==
    InsertValues("current_ans_lookup_v2", T, item_to_insert)
insert_ans_lookups_v2_query(T, item_to_insert) ==
    InsertValues("ans_lookup_v2", T, item_to_insert)
insert_current_ans_primary_names_v2_query(T, item_to_insert) ==
    InsertValues("current_ans_primary_name_v2", T, item_to_insert)
insert_ans_primary_names_v2_query(T, items_to_insert) ==
    InsertValues("ans_primary_name_v2", T, items_to_insert)

Query(t, T, items) ==
    CASE t = "current_ans_lookup" -> insert_current_ans_lookups_query(T, items)
      [] t = "ans_lookup" -> insert_ans_lookups_query(T, items)
      [] t = "current_ans_primary_name" -> insert_current_ans_primary_names_query(T, items)
      [] t = "ans_primary_name" -> insert_ans_primary_names_query(T, items)
      [] t = "current_ans_lookup_v2" -> insert_current_ans_lookups_v2_query(T, items)
      [] t = "ans_lookup_v2" -> insert_ans_lookups_v2_query(T, items)
      [] t = "current_ans_primary_name_v2" -> insert_current_ans_primary_names_v2_query(T, items)
      [] t = "ans_primary_name_v2" -> insert_ans_primary_names_v2_query(T, items)

\* ------------------------------------------------------------------------
\* Transactions: the fields of aptos_protos Transaction the extractors read
\* ------------------------------------------------------------------------
NoValue == "NULL"      \* an Option column holding None

\* An event of a user transaction.  parses = FALSE: the payload of a supported
\* type does not deserialize.
Event(type, parses, address, domain) ==
    [type |-> type, parses |-> parses, address |-> address, domain |-> domain]

\* An entry of info.changes.  change = "None": the entry carries no change.
\* tag is the table handle of a table item, the resource type of a resource.
Change(change, tag, parses, domain, address) ==
    [change |-> change, tag |-> tag, parses |-> parses, domain |-> domain,
     address |-> address]

AnsEvents ==
    {Event("SetReverseLookupEvent", TRUE, "a1", "d1"),
     Event("SetReverseLookupEvent", FALSE, "a1", "d1"),
     Event("RenewNameEvent", FALSE, "a1", "d1"),
     Event("Other", TRUE, "a1", "d1")}

AnsChanges ==
    {Change("None", "", TRUE, "d1", "a1"),
     Change("WriteTableItem", "name_records", TRUE, "d1", "a1"),
     Change("WriteTableItem", "name_records", TRUE, "d1", "a2"),
     Change("WriteTableItem", "name_records", TRUE, "d2", "a1"),
     Change("WriteTableItem", "name_records", FALSE, "d1", "a1"),
     Change("DeleteTableItem", "name_records", TRUE, "d1", "a1"),
     Change("WriteTableItem", "primary_names", TRUE, "d1", "a1"),
     Change("WriteTableItem", "primary_names", TRUE, "d2", "a2"),
     Change("DeleteTableItem", "primary_names", TRUE, "d1", "a1"),
     Change("WriteResource", "NameRecord", TRUE, "d1", "a2"),
     Change("WriteResource", "SubdomainExt", TRUE, "d1", "a2"),
     Change("WriteResource", "SubdomainExt", FALSE, "d1", "a2"),
     Change("DeleteResource", "NameRecord", TRUE, "d1", "a1")}

Transaction(version, txn_data, info, events, changes) ==
    [version |-> version, txn_data |-> txn_data, info |-> info,
     timestamp |-> 100 * version, events |-> events, changes |-> changes]

\* ------------------------------------------------------------------------
\* The rows the ANS parsers build
\* ------------------------------------------------------------------------
Result(tag, current, activity) ==
    [tag |-> tag, current |-> current, activity |-> activity]
None == Result("None", <<>>, <<>>)
Err == Result("Err", <<>>, <<>>)
Some(current, activity) == Result("Some", current, activity)

\* CurrentAnsLookup::parse_name_record_from_write_table_item_v1
parse_name_record_from_write_table_item_v1(table_item, txn_version, write_set_change_index) ==
    IF table_item.tag # "name_records" THEN None
    ELSE IF ~table_item.parses THEN Err
    ELSE Some(
        [domain |-> table_item.domain, subdomain |-> "",
         registered_address |-> table_item.address, expiration_timestamp |-> 10,
         last_transaction_version |-> txn_version,
         token_name |-> table_item.domain, is_deleted |-> FALSE],
        [transaction_version |-> txn_version,
         write_set_change_index |-> write_set_change_index,
         domain |-> table_item.domain, subdomain |-> "",
         registered_address |-> table_item.address, expiration_timestamp |-> 10,
         token_name |-> table_item.domain, is_deleted |-> FALSE])

\* CurrentAnsLookup::parse_name_record_from_delete_table_item_v1
parse_name_record_from_delete_table_item_v1(table_item, txn_version, write_set_change_index) ==
    IF table_item.tag # "name_records" THEN None
    ELSE IF ~table_item.parses THEN Err
    ELSE Some(
        [domain |-> table_item.domain, subdomain |-> "",
         registered_address |-> NoValue, expiration_timestamp |-> 0,
         last_transaction_version |-> txn_version,
         token_name |-> table_item.domain, is_deleted |-> TRUE],
        [transaction_version |-> txn_version,
         write_set_change_index |-> write_set_change_index,
         domain |-> table_item.domain, subdomain |-> "",
         registered_address |-> NoValue, expiration_timestamp |-> 0,
         token_name |-> table_item.domain, is_deleted |-> TRUE])

\* CurrentAnsPrimaryName::parse_primary_name_record_from_write_table_item_v1
parse_primary_name_record_from_write_table_item_v1(table_item, txn_version, write_set_change_index) ==
    IF table_item.tag # "primary_names" THEN None
    ELSE IF ~table_item.parses THEN Err
    ELSE Some(
        [registered_address |-> table_item.address, domain |-> table_item.domain,
         subdomain |-> "", token_name |-> table_item.domain,
         is_deleted |-> FALSE, last_transaction_version |-> txn_version],
        [transaction_version |-> txn_version,
         write_set_change_index |-> write_set_change_index,
         registered_address |-> table_item.address, domain |-> table_item.domain,
         subdomain |-> "", token_name |-> table_item.domain,
         is_deleted |-> FALSE])

\* CurrentAnsPrimaryName::parse_primary_name_record_from_delete_table_item_v1
parse_primary_name_record_from_delete_table_item_v1(table_item, txn_version, write_set_change_index) ==
    IF table_item.tag # "primary_names" THEN None
    ELSE IF ~table_item.parses THEN Err
    ELSE Some(
        [registered_address |-> table_item.address, domain |-> NoValue,
         subdomain |-> NoValue, token_name |-> NoValue,
         is_deleted |-> TRUE, last_transaction_version |-> txn_version],
        [transaction_version |-> txn_version,
         write_set_change_index |-> write_set_change_index,
         registered_address |-> table_item.address, domain |-> NoValue,
         subdomain |-> NoValue, token_name |-> NoValue, is_deleted |-> TRUE])

WithV2(row, token_standard, policy) ==
    [c \in DOMAIN row \cup {"token_standard", "subdomain_expiration_policy"} |->
        IF c = "token_standard" THEN token_standard
        ELSE IF c = "subdomain_expiration_policy" THEN policy ELSE row[c]]

WithStandard(row, token_standard) ==
    [c \in DOMAIN row \cup {"token_standard"} |->
        IF c = "token_standard" THEN token_standard ELSE row[c]]

\* CurrentAnsLookupV2::get_v2_from_v1
CurrentAnsLookupV2_get_v2_from_v1(current_ans_lookup, ans_lookup) ==
    [current |-> WithV2(current_ans_lookup, "v1", NoPolicy),
     activity |-> WithV2(ans_lookup, "v1", NoPolicy)]

\* CurrentAnsPrimaryNameV2::get_v2_from_v1
CurrentAnsPrimaryNameV2_get_v2_from_v1(current_primary_name, primary_name) ==
    [current |-> WithStandard(current_primary_name, "v1"),
     activity |-> WithStandard(primary_name, "v1")]

\* CurrentAnsLookupV2::parse_name_record_from_write_resource_v2
parse_name_record_from_write_resource_v2(write_resource, txn_version, write_set_change_index, address_to_subdomain_ext) ==
    IF write_resource.tag # "NameRecord" THEN None
    ELSE IF ~write_resource.parses THEN Err
    ELSE LET policy ==
                 IF write_resource.address \in DOMAIN address_to_subdomain_ext
                 THEN address_to_subdomain_ext[write_resource.address]
                 ELSE NoPolicy
         IN Some(
        [domain |-> write_resource.domain, subdomain |-> "",
         token_standard |-> "v2",
         registered_address |-> write_resource.address,
         expiration_timestamp |-> 10, last_transaction_version |-> txn_version,
         token_name |-> write_resource.domain, is_deleted |-> FALSE,
         subdomain_expiration_policy |-> policy],
        [transaction_version |-> txn_version,
         write_set_change_index |-> write_set_change_index,
         domain |-> write_resource.domain, subdomain |-> "",
         token_standard |-> "v2",
         registered_address |-> write_resource.address,
         expiration_timestamp |-> 10, token_name |-> write_resource.domain,
         is_deleted |-> FALSE, subdomain_expiration_policy |-> policy])

\* SubdomainExtV2::from_write_resource
SubdomainExtV2_from_write_resource(write_resource) ==
    IF write_resource.tag # "SubdomainExt" THEN None
    ELSE IF ~write_resource.parses THEN Err
    ELSE Some("1", <<>>)

\* RenewNameEvent::from_event
RenewNameEvent_from_event(event) ==
    IF event.type # "RenewNameEvent" THEN None
    ELSE IF ~event.parses THEN Err
    ELSE Some(event, <<>>)

\* CurrentAnsPrimaryNameV2::parse_v2_primary_name_record_from_event
parse_v2_primary_name_record_from_event(event, txn_version, event_index) ==
    IF event.type # "SetReverseLookupEvent" THEN None
    ELSE IF ~event.parses THEN Err
    ELSE Some(
        [registered_address |-> event.address, token_standard |-> "v2",
         domain |-> event.domain, subdomain |-> "",
         token_name |-> event.domain, is_deleted |-> FALSE,
         last_transaction_version |-> txn_version],
        [transaction_version |-> txn_version,
         write_set_change_index |-> -(event_index + 1),
         registered_address |-> event.address, token_standard |-> "v2",
         domain |-> event.domain, subdomain |-> "",
         token_name |-> event.domain, is_deleted |-> FALSE])

\* ------------------------------------------------------------------------
\* parse_ans
\* ------------------------------------------------------------------------
\* pk() of the current-state rows: the key of the batch maps
pk(t, r) == ConflictTarget(t, r)

\* AHashMap::insert(row.pk(), row): a map is the set of its values
MapInsertKeepsOld(t, map, row) ==
    IF \E s \in map : pk(t, s) = pk(t, row) THEN map ELSE map \cup {row}
MapInsert(t, map, row) == {s \in map : pk(t, s) # pk(t, row)} \cup {row}

\* the accumulators of parse_ans; extracted is the history of the
\* current-state rows handed to the maps, in order
EmptyAcc ==
    [all_current_ans_lookups |-> {}, all_ans_lookups |-> <<>>,
     all_current_ans_primary_names |-> {}, all_ans_primary_names |-> <<>>,
     all_current_ans_lookups_v2 |-> {}, all_ans_lookups_v2 |-> <<>>,
     all_current_ans_primary_names_v2 |-> {}, all_ans_primary_names_v2 |-> <<>>,
     panicked |-> FALSE, cause |-> "", unknown_type_count |-> 0,
     extracted |-> [t \in CurrentTables |-> <<>>]]

\* a panic unwinds out of parse_ans; cause records which call panicked
Panic(acc, cause) == [acc EXCEPT !.panicked = TRUE, !.cause = cause]

Noted(acc, t, row) ==
    [acc EXCEPT !.extracted[t] = Append(@, row)]

\* a v1 name record pushed to the v1 row sets only
PushLookupV1_v1_only(acc, pair) ==
    [Noted(acc, "current_ans_lookup", pair.current) EXCEPT
          !.all_current_ans_lookups =
              MapInsert("current_ans_lookup", @, pair.current),
          !.all_ans_lookups = Append(@, pair.activity)]
\* lines 603-612 and 665-674
PushLookupV1(acc, pair) ==
    LET v2 == CurrentAnsLookupV2_get_v2_from_v1(pair.current, pair.activity)
        a1 == Noted(Noted(acc, "current_ans_lookup", pair.current),
                    "current_ans_lookup_v2", v2.current)
    IN [a1 EXCEPT
          !.all_current_ans_lookups =
              MapInsert("current_ans_lookup", @, pair.current),
          !.all_ans_lookups = Append(@, pair.activity),
          !.all_current_ans_lookups_v2 =
              MapInsert("current_ans_lookup_v2", @, v2.current),
          !.all_ans_lookups_v2 = Append(@, v2.activity)]

\* lines 633-642 and 695-704
PushPrimaryNameV1(acc, pair) ==
    LET v2 == CurrentAnsPrimaryNameV2_get_v2_from_v1(pair.current, pair.activity)
        a1 == Noted(Noted(acc, "current_ans_primary_name", pair.current),
                    "current_ans_primary_name_v2", v2.current)
    IN [a1 EXCEPT
          !.all_current_ans_primary_names =
              MapInsert("current_ans_primary_name", @, pair.current),
          !.all_ans_primary_names = Append(@, pair.activity),
          !.all_current_ans_primary_names_v2 =
              MapInsert("current_ans_primary_name_v2", @, v2.current),
          !.all_ans_primary_names_v2 = Append(@, v2.activity)]

\* lines 728-730
PushLookupV2(acc, pair) ==
    [Noted(acc, "current_ans_lookup_v2", pair.current) EXCEPT
          !.all_current_ans_lookups_v2 =
              MapInsert("current_ans_lookup_v2", @, pair.current),
          !.all_ans_lookups_v2 = Append(@, pair.activity)]

\* lines 543-545
PushPrimaryNameV2(acc, pair) ==
    [Noted(acc, "current_ans_primary_name_v2", pair.current) EXCEPT
          !.all_current_ans_primary_names_v2 =
              MapInsert("current_ans_primary_name_v2", @, pair.current),
          !.all_ans_primary_names_v2 = Append(@, pair.activity)]

\* .unwrap() of a Result: Err panics
Unwrap(res) == res.tag # "Err"
\* .map_err(..).ok().flatten() of a Result<Option<..>>: Err becomes None
OkFlatten(res) == IF res.tag = "Err" THEN None ELSE res

\* the body of the event loop, event_index counted from 0
ParseEvent(acc, event, txn_version, event_index) ==
    LET renew == RenewNameEvent_from_event(event)
        name == parse_v2_primary_name_record_from_event(
                    event, txn_version, event_index)
    IN IF ~Unwrap(renew) THEN Panic(acc, "event")
       ELSE IF ~Unwrap(name) THEN Panic(acc, "event")
       ELSE IF name.tag = "Some" THEN PushPrimaryNameV2(acc, name)
       ELSE acc

RECURSIVE ParseEvents(_, _, _, _)
ParseEvents(acc, events, txn_version, i) ==
    IF i > Len(events) \/ acc.panicked THEN acc
    ELSE ParseEvents(ParseEvent(acc, events[i], txn_version, i - 1),
                     events, txn_version, i + 1)

\* .filter(|wsc| wsc.change.is_some())
RECURSIVE FilterChanges(_)
FilterChanges(changes) ==
    IF changes = <<>> THEN <<>>
    ELSE IF Head(changes).change = "None" THEN FilterChanges(Tail(changes))
    ELSE <<Head(changes)>> \o FilterChanges(Tail(changes))

\* the subdomain ext loop: resource address -> SubdomainExt, or a panic
RECURSIVE SubdomainExts(_, _, _)
SubdomainExts(changes, i, ext) ==
    IF i > Len(changes) \/ ext.panicked THEN ext
    ELSE LET wsc == changes[i]
             res == SubdomainExtV2_from_write_resource(wsc)
         IN IF wsc.change # "WriteResource" THEN SubdomainExts(changes, i + 1, ext)
            ELSE IF ~Unwrap(res) THEN [ext EXCEPT !.panicked = TRUE]
            ELSE IF res.tag = "Some"
                 THEN SubdomainExts(changes, i + 1,
                          [ext EXCEPT !.map =
                              [a \in DOMAIN @ \cup {wsc.address} |->
                                  IF a = wsc.address THEN res.current ELSE @[a]]])
            ELSE SubdomainExts(changes, i + 1, ext)

\* the write set change loop without .enumerate(): every row at index 0
ParseChange_unindexed(acc, wsc, txn_version, wsc_index, address_to_subdomain_ext) ==
    IF wsc.change = "WriteTableItem" THEN
        LET lookup == OkFlatten(parse_name_record_from_write_table_item_v1(
                          wsc, txn_version, 0))
            primary == OkFlatten(parse_primary_name_record_from_write_table_item_v1(
                          wsc, txn_version, 0))
            a1 == IF lookup.tag = "Some" THEN PushLookupV1(acc, lookup) ELSE acc
        IN IF primary.tag = "Some" THEN PushPrimaryNameV1(a1, primary) ELSE a1
    ELSE IF wsc.change = "DeleteTableItem" THEN
        LET lookup == OkFlatten(parse_name_record_from_delete_table_item_v1(
                          wsc, txn_version, 0))
            primary == OkFlatten(parse_primary_name_record_from_delete_table_item_v1(
                          wsc, txn_version, 0))
            a1 == IF lookup.tag = "Some" THEN PushLookupV1(acc, lookup) ELSE acc
        IN IF primary.tag = "Some" THEN PushPrimaryNameV1(a1, primary) ELSE a1
    ELSE IF wsc.change = "WriteResource" THEN
        LET lookup == OkFlatten(parse_name_record_from_write_resource_v2(
                          wsc, txn_version, 0, address_to_subdomain_ext))
        IN IF lookup.tag = "Some" THEN PushLookupV2(acc, lookup) ELSE acc
    ELSE acc
\* the body of the write set change loop, wsc_index counted from 0
ParseChange(acc, wsc, txn_version, wsc_index, address_to_subdomain_ext) ==
    IF wsc.change = "WriteTableItem" THEN
        LET lookup == OkFlatten(parse_name_record_from_write_table_item_v1(
                          wsc, txn_version, wsc_index))
            primary == OkFlatten(parse_primary_name_record_from_write_table_item_v1(
                          wsc, txn_version, wsc_index))
            a1 == IF lookup.tag = "Some" THEN PushLookupV1(acc, lookup) ELSE acc
        IN IF primary.tag = "Some" THEN PushPrimaryNameV1(a1, primary) ELSE a1
    ELSE IF wsc.change = "DeleteTableItem" THEN
        LET lookup == OkFlatten(parse_name_record_from_delete_table_item_v1(
                          wsc, txn_version, wsc_index))
            primary == OkFlatten(parse_primary_name_record_from_delete_table_item_v1(
                          wsc, txn_version, wsc_index))
            a1 == IF lookup.tag = "Some" THEN PushLookupV1(acc, lookup) ELSE acc
        IN IF primary.tag = "Some" THEN PushPrimaryNameV1(a1, primary) ELSE a1
    ELSE IF wsc.change = "WriteResource" THEN
        LET lookup == OkFlatten(parse_name_record_from_write_resource_v2(
                          wsc, txn_version, wsc_index, address_to_subdomain_ext))
        IN IF lookup.tag = "Some" THEN PushLookupV2(acc, lookup) ELSE acc
    ELSE acc

RECURSIVE ParseChanges(_, _, _, _, _)
ParseChanges(acc, changes, txn_version, i, address_to_subdomain_ext) ==
    IF i > Len(changes) THEN acc
    ELSE ParseChanges(
            ParseChange(acc, changes[i], txn_version, i - 1,
                        address_to_subdomain_ext),
            changes, txn_version, i + 1, address_to_subdomain_ext)

\* the loop body with a missing data section unwrapped instead of skipped
ParseTransactionBody_no_data_panics(acc, transaction) ==
    LET txn_version == transaction.version IN
    IF transaction.txn_data = "None" THEN Panic(acc, "data")
    ELSE IF ~transaction.info THEN Panic(acc, "info")
    ELSE IF transaction.txn_data # "User" THEN acc
    ELSE LET a1 == ParseEvents(acc, transaction.events, txn_version, 1)
             changes == FilterChanges(transaction.changes)
             ext == SubdomainExts(changes, 1,
                        [panicked |-> FALSE, map |-> <<>>])
         IN IF a1.panicked THEN a1
            ELSE IF ext.panicked THEN Panic(a1, "resource")
            ELSE ParseChanges(a1, changes, txn_version, 1, ext.map)
\* the body of `for transaction in transactions`
ParseTransactionBody(acc, transaction) ==
    LET txn_version == transaction.version IN
    IF transaction.txn_data = "None"
    THEN [acc EXCEPT !.unknown_type_count = @ + 1]
    ELSE IF ~transaction.info THEN Panic(acc, "info")
    ELSE IF transaction.txn_data # "User" THEN acc
    ELSE LET a1 == ParseEvents(acc, transaction.events, txn_version, 1)
             changes == FilterChanges(transaction.changes)
             ext == SubdomainExts(changes, 1,
                        [panicked |-> FALSE, map |-> <<>>])
         IN IF a1.panicked THEN a1
            ELSE IF ext.panicked THEN Panic(a1, "resource")
            ELSE ParseChanges(a1, changes, txn_version, 1, ext.map)

\* Ord of the current-state rows: by key
Rank(x) ==
    CASE x = "" -> 0 [] x = "NULL" -> 1
      [] x = "a1" -> 2 [] x = "a2" -> 3
      [] x = "d1" -> 4 [] x = "d2" -> 5
      [] x = "v1" -> 6 [] x = "v2" -> 7

RECURSIVE KeyLess(_, _)
KeyLess(k1, k2) ==
    IF k1 = <<>> \/ k2 = <<>> THEN FALSE
    ELSE IF Rank(Head(k1)) # Rank(Head(k2)) THEN Rank(Head(k1)) < Rank(Head(k2))
    ELSE KeyLess(Tail(k1), Tail(k2))

\* into_values().collect() followed by sort()
RECURSIVE SortedDescending(_, _)
SortedDescending(t, map) ==
    IF map = {} THEN <<>>
    ELSE LET m == CHOOSE m \in map :
                     \A o \in map \ {m} : KeyLess(pk(t, o), pk(t, m))
         IN <<m>> \o SortedDescending(t, map \ {m})
RECURSIVE Sorted(_, _)
Sorted(t, map) ==
    IF map = {} THEN <<>>
    ELSE LET m == CHOOSE m \in map :
                     \A o \in map \ {m} : KeyLess(pk(t, m), pk(t, o))
         IN <<m>> \o Sorted(t, map \ {m})

\* the tuple parse_ans returns, by table
Returned(acc) ==
    [t \in Tables |->
        CASE t = "current_ans_lookup" -> Sorted(t, acc.all_current_ans_lookups)
          [] t = "ans_lookup" -> acc.all_ans_lookups
          [] t = "current_ans_primary_name" ->
                 Sorted(t, acc.all_current_ans_primary_names)
          [] t = "ans_primary_name" -> acc.all_ans_primary_names
          [] t = "current_ans_lookup_v2" ->
                 Sorted(t, acc.all_current_ans_lookups_v2)
          [] t = "ans_lookup_v2" -> acc.all_ans_lookups_v2
          [] t = "current_ans_primary_name_v2" ->
                 Sorted(t, acc.all_current_ans_primary_names_v2)
          [] t = "ans_primary_name_v2" -> acc.all_ans_primary_names_v2]

\* ------------------------------------------------------------------------
\* utils/util.rs: standardize_address.  A string is the sequence of its
\* characters.
\* ------------------------------------------------------------------------
AddressDigits == 64

\* handle.strip_prefix("0x"), or handle when it has no such prefix
strip_prefix(handle) ==
    IF Len(handle) >= 2 /\ handle[1] = "0" /\ handle[2] = "x"
    THEN SubSeq(handle, 3, Len(handle))
    ELSE handle

\* format!("{:0>64}", s): zeros on the left up to the width, s when longer
pad_left(s) ==
    IF Len(s) >= AddressDigits THEN s
    ELSE [i \in 1..(AddressDigits - Len(s)) |-> "0"] \o s

\* standardize_address padding the handle as it is given, prefix included
standardize_address_keeps_prefix(handle) ==
    <<"0", "x">> \o (IF Len(handle) >= AddressDigits THEN handle
                     ELSE [i \in 1..(AddressDigits - Len(handle)) |-> "0"]
                              \o handle)
standardize_address(handle) == <<"0", "x">> \o pad_left(strip_prefix(handle))

\* ------------------------------------------------------------------------
\* coin_models/coin_activities.rs: CoinActivity::from_transaction
\* ------------------------------------------------------------------------
U64Limit == 16         \* stands for 2^64: the u64 values are 0..U64Limit - 1

APTOS_COIN_TYPE_STR == "0x1::aptos_coin::AptosCoin"
GAS_FEE_EVENT == "0x1::aptos_coin::GasFeeEvent"
BURN_GAS_EVENT_CREATION_NUM == -1
BURN_GAS_EVENT_INDEX == -1
UnknownCoinType == "0x1::coin::UnknownCoinType"

SomeOf(value) == Some(value, <<>>)

\* an event as the coin extractor reads it
CoinEventPB(type_str, parses, account_address, creation_number, sequence_number, amount) ==
    [type_str |-> type_str, parses |-> parses,
     account_address |-> account_address, creation_number |-> creation_number,
     sequence_number |-> sequence_number, amount |-> amount]

\* an entry of info.changes as the coin extractor reads it; of a CoinStore
\* the deposit events have creation number creation_number and the withdraw
\* events creation_number + 1
CoinChange(change, tag, parses, address, coin_type, creation_number) ==
    [change |-> change, tag |-> tag, parses |-> parses, address |-> address,
     coin_type |-> coin_type, creation_number |-> creation_number]

UserTransactionRequest(sender, sequence_number, gas_unit_price) ==
    [sender |-> sender, sequence_number |-> sequence_number,
     gas_unit_price |-> gas_unit_price]

\* timestamp and request are Options: <<>> is None, <<x>> is Some(x)
CoinTransaction(version, txn_data, info, timestamp, request, gas_used, events, changes) ==
    [version |-> version, txn_data |-> txn_data, info |-> info,
     timestamp |-> timestamp, request |-> request, gas_used |-> gas_used,
     success |-> TRUE, events |-> events, changes |-> changes]

\* FeeStatement::from_event: Option, a payload that does not parse is None
FeeStatement_from_event(event) ==
    IF event.type_str = "0x1::transaction_fee::FeeStatement"
    THEN IF event.parses
         THEN SomeOf([storage_fee_refund_octas |-> event.amount])
         ELSE None
    ELSE None

\* CoinEvent::from_event: Result<Option<CoinEvent>>
CoinEvent_from_event(event) ==
    IF event.type_str \in {"0x1::coin::WithdrawEvent", "0x1::coin::DepositEvent"}
    THEN IF event.parses THEN SomeOf([amount |-> event.amount]) ELSE Err
    ELSE None

\* CoinInfo::from_write_resource: Result<Option<CoinInfo>>
CoinInfo_from_write_resource(write_resource, txn_version) ==
    IF write_resource.tag # "CoinInfo" THEN None
    ELSE IF ~write_resource.parses THEN Err
    ELSE SomeOf([coin_type |-> write_resource.coin_type,
                 transaction_version_created |-> txn_version,
                 creator_address |-> standardize_address(write_resource.address)])

\* CoinBalance::from_write_resource:
\* Result<Option<(CoinBalance, CurrentCoinBalance, EventToCoinType)>>
CoinBalance_from_write_resource(write_resource, txn_version) ==
    IF write_resource.tag # "CoinStore" THEN None
    ELSE IF ~write_resource.parses THEN Err
    ELSE LET owner_address == standardize_address(write_resource.address)
         IN SomeOf(
        [coin_balance |->
            [transaction_version |-> txn_version,
             owner_address |-> owner_address,
             coin_type |-> write_resource.coin_type],
         current_coin_balance |->
            [owner_address |-> owner_address,
             coin_type |-> write_resource.coin_type,
             last_transaction_version |-> txn_version],
         event_to_coin_type |->
            {[addr |-> owner_address,
              creation_num |-> write_resource.creation_number,
              coin_type |-> write_resource.coin_type],
             [addr |-> owner_address,
              creation_num |-> write_resource.creation_number + 1,
              coin_type |-> write_resource.coin_type]}])

EventGuidResource(e) == <<e.addr, e.creation_num>>
CoinType(e) == e.coin_type
CurrentCoinBalancePK(e) == <<e.owner_address, e.coin_type>>

\* the key of entry e of the map named m
MapKey(m, e) ==
    CASE m = "all_event_to_coin_type" -> EventGuidResource(e)
      [] m = "coin_infos" -> CoinType(e)
      [] m = "current_coin_balances" -> CurrentCoinBalancePK(e)

\* AHashMap::extend and AHashMap::insert on the map named m, held as the set
\* of its entries
MapExtend(m, map, entries) ==
    {e \in map : \A n \in entries : MapKey(m, n) # MapKey(m, e)} \cup entries

\* what from_transaction returns, and whether it panicked instead
CoinDefault ==
    [coin_activities |-> <<>>, coin_balances |-> <<>>, coin_infos |-> {},
     current_coin_balances |-> {}, all_event_to_coin_type |-> {},
     panicked |-> FALSE, cause |-> "", unknown_type_count |-> 0]

CoinPanic(out, cause) == [out EXCEPT !.panicked = TRUE, !.cause = cause]

\* get_gas_event without the fee statement
get_gas_event_no_refund(transaction, user_transaction_request, fee_statement) ==
    [transaction_version |-> transaction.version,
     event_account_address |->
         standardize_address(user_transaction_request.sender),
     event_creation_number |-> BURN_GAS_EVENT_CREATION_NUM,
     event_sequence_number |-> user_transaction_request.sequence_number,
     owner_address |-> standardize_address(user_transaction_request.sender),
     coin_type |-> APTOS_COIN_TYPE_STR,
     amount |-> (transaction.gas_used * user_transaction_request.gas_unit_price)
                    % U64Limit,
     activity_type |-> GAS_FEE_EVENT,
     is_gas_fee |-> TRUE,
     is_transaction_success |-> transaction.success,
     transaction_timestamp |-> transaction.timestamp[1],
     event_index |-> BURN_GAS_EVENT_INDEX,
     storage_refund_amount |-> 0]
\* CoinActivity::get_gas_event.  gas_used * gas_unit_price is a u64 product:
\* past the u64 range it wraps, or panics in a build with overflow checks
get_gas_event(transaction, user_transaction_request, fee_statement) ==
    [transaction_version |-> transaction.version,
     event_account_address |->
         standardize_address(user_transaction_request.sender),
     event_creation_number |-> BURN_GAS_EVENT_CREATION_NUM,
     event_sequence_number |-> user_transaction_request.sequence_number,
     owner_address |-> standardize_address(user_transaction_request.sender),
     coin_type |-> APTOS_COIN_TYPE_STR,
     amount |-> (transaction.gas_used * user_transaction_request.gas_unit_price)
                    % U64Limit,
     activity_type |-> GAS_FEE_EVENT,
     is_gas_fee |-> TRUE,
     is_transaction_success |-> transaction.success,
     transaction_timestamp |-> transaction.timestamp[1],
     event_index |-> BURN_GAS_EVENT_INDEX,
     storage_refund_amount |->
         IF fee_statement.tag = "Some"
         THEN fee_statement.current.storage_fee_refund_octas ELSE 0]

\* from_parsed_event with the coin type of the native coin for an event
\* whose GUID is not in the index
from_parsed_event_native(event, coin_event, transaction, event_to_coin_type, event_index) ==
    LET addr == standardize_address(event.account_address)
        found == {e \in event_to_coin_type :
                     EventGuidResource(e) = <<addr, event.creation_number>>}
    IN [transaction_version |-> transaction.version,
        event_account_address |-> addr,
        event_creation_number |-> event.creation_number,
        event_sequence_number |-> event.sequence_number,
        owner_address |-> addr,
        coin_type |-> IF found = {} THEN APTOS_COIN_TYPE_STR
                      ELSE (CHOOSE e \in found : TRUE).coin_type,
        amount |-> coin_event.amount,
        activity_type |-> event.type_str,
        is_gas_fee |-> FALSE,
        is_transaction_success |-> TRUE,
        transaction_timestamp |-> transaction.timestamp[1],
        event_index |-> event_index,
        storage_refund_amount |-> 0]
\* CoinActivity::from_parsed_event, event_index counted from 0
from_parsed_event(event, coin_event, transaction, event_to_coin_type, event_index) ==
    LET addr == standardize_address(event.account_address)
        found == {e \in event_to_coin_type :
                     EventGuidResource(e) = <<addr, event.creation_number>>}
    IN [transaction_version |-> transaction.version,
        event_account_address |-> addr,
        event_creation_number |-> event.creation_number,
        event_sequence_number |-> event.sequence_number,
        owner_address |-> addr,
        coin_type |-> IF found = {} THEN UnknownCoinType
                      ELSE (CHOOSE e \in found : TRUE).coin_type,
        amount |-> coin_event.amount,
        activity_type |-> event.type_str,
        is_gas_fee |-> FALSE,
        is_transaction_success |-> TRUE,
        transaction_timestamp |-> transaction.timestamp[1],
        event_index |-> event_index,
        storage_refund_amount |-> 0]

\* events.iter().find_map(FeeStatement::from_event)
RECURSIVE FindFeeStatement(_, _)
FindFeeStatement(events, i) ==
    IF i > Len(events) THEN None
    ELSE IF FeeStatement_from_event(events[i]).tag = "Some"
         THEN FeeStatement_from_event(events[i])
         ELSE FindFeeStatement(events, i + 1)

\* the loop over info.changes
RECURSIVE CoinChanges(_, _, _, _)
CoinChanges(out, changes, txn_version, i) ==
    IF i > Len(changes) \/ out.panicked THEN out
    ELSE LET wsc == changes[i]
             info == CoinInfo_from_write_resource(wsc, txn_version)
             balance == CoinBalance_from_write_resource(wsc, txn_version)
             o1 == IF info.tag = "Some"
                   THEN [out EXCEPT !.coin_infos =
                            MapExtend("coin_infos", @, {info.current})]
                   ELSE out
             o2 == IF balance.tag = "Some"
                   THEN [o1 EXCEPT
                     !.current_coin_balances =
                         MapExtend("current_coin_balances", @,
                                   {balance.current.current_coin_balance}),
                     !.coin_balances = Append(@, balance.current.coin_balance),
                     !.all_event_to_coin_type =
                         MapExtend("all_event_to_coin_type", @,
                                   balance.current.event_to_coin_type)]
                   ELSE o1
         IN IF wsc.change # "WriteResource"
            THEN CoinChanges(out, changes, txn_version, i + 1)
            ELSE IF ~Unwrap(info) \/ ~Unwrap(balance)
                 THEN CoinPanic(out, "resource")
            ELSE CoinChanges(o2, changes, txn_version, i + 1)

\* the loop over the events
RECURSIVE CoinEvents(_, _, _, _)
CoinEvents(out, events, transaction, i) ==
    IF i > Len(events) \/ out.panicked THEN out
    ELSE LET parsed_event == CoinEvent_from_event(events[i])
         IN IF ~Unwrap(parsed_event) THEN CoinPanic(out, "event")
            ELSE IF parsed_event.tag = "Some"
                 THEN CoinEvents(
                        [out EXCEPT !.coin_activities =
                            Append(@, from_parsed_event(
                                events[i], parsed_event.current, transaction,
                                out.all_event_to_coin_type, i - 1))],
                        events, transaction, i + 1)
            ELSE CoinEvents(out, events, transaction, i + 1)

\* from_transaction with the event loop run before the loop over the changes
from_transaction_events_first(transaction, overflow_checks) ==
    IF transaction.txn_data = "None"
    THEN [CoinDefault EXCEPT !.unknown_type_count = 1]
    ELSE IF transaction.txn_data \notin {"Genesis", "User"} THEN CoinDefault
    ELSE IF ~transaction.info THEN CoinPanic(CoinDefault, "info")
    ELSE IF transaction.timestamp = <<>>
         THEN CoinPanic(CoinDefault, "timestamp")
    ELSE LET maybe_user_request ==
                 IF transaction.txn_data = "User" THEN transaction.request
                 ELSE <<>>
             gas == get_gas_event(transaction, maybe_user_request[1],
                                  FindFeeStatement(transaction.events, 1))
             o1 == IF maybe_user_request # <<>>
                   THEN [CoinDefault EXCEPT !.coin_activities = <<gas>>]
                   ELSE CoinDefault
         IN IF maybe_user_request # <<>> /\ overflow_checks
               /\ transaction.gas_used * maybe_user_request[1].gas_unit_price
                      >= U64Limit
            THEN CoinPanic(CoinDefault, "overflow")
            ELSE CoinChanges(CoinEvents(o1, transaction.events, transaction, 1),
                             FilterChanges(transaction.changes),
                             transaction.version, 1)
\* from_transaction with an index that outlives the call: it starts from the
\* index the call before it built
from_transaction_keeps_index(transaction, overflow_checks) ==
    IF transaction.txn_data = "None"
    THEN [CoinDefault EXCEPT !.unknown_type_count = 1]
    ELSE IF transaction.txn_data \notin {"Genesis", "User"} THEN CoinDefault
    ELSE IF ~transaction.info THEN CoinPanic(CoinDefault, "info")
    ELSE IF transaction.timestamp = <<>>
         THEN CoinPanic(CoinDefault, "timestamp")
    ELSE LET maybe_user_request ==
                 IF transaction.txn_data = "User" THEN transaction.request
                 ELSE <<>>
             gas == get_gas_event(transaction, maybe_user_request[1],
                                  FindFeeStatement(transaction.events, 1))
             o0 == [CoinDefault EXCEPT !.all_event_to_coin_type =
                                           coin.all_event_to_coin_type]
             o1 == IF maybe_user_request # <<>>
                   THEN [o0 EXCEPT !.coin_activities = <<gas>>]
                   ELSE o0
             o2 == CoinChanges(o1, FilterChanges(transaction.changes),
                               transaction.version, 1)
         IN IF maybe_user_request # <<>> /\ overflow_checks
               /\ transaction.gas_used * maybe_user_request[1].gas_unit_price
                      >= U64Limit
            THEN CoinPanic(CoinDefault, "overflow")
            ELSE CoinEvents(o2, transaction.events, transaction, 1)
\* overflow_checks: the build panics on integer overflow
from_transaction(transaction, overflow_checks) ==
    IF transaction.txn_data = "None"
    THEN [CoinDefault EXCEPT !.unknown_type_count = 1]
    ELSE IF transaction.txn_data \notin {"Genesis", "User"} THEN CoinDefault
    ELSE IF ~transaction.info THEN CoinPanic(CoinDefault, "info")
    ELSE IF transaction.timestamp = <<>>
         THEN CoinPanic(CoinDefault, "timestamp")
    ELSE LET maybe_user_request ==
                 IF transaction.txn_data = "User" THEN transaction.request
                 ELSE <<>>
             gas == get_gas_event(transaction, maybe_user_request[1],
                                  FindFeeStatement(transaction.events, 1))
             o1 == IF maybe_user_request # <<>>
                   THEN [CoinDefault EXCEPT !.coin_activities = <<gas>>]
                   ELSE CoinDefault
             o2 == CoinChanges(o1, FilterChanges(transaction.changes),
                               transaction.version, 1)
         IN IF maybe_user_request # <<>> /\ overflow_checks
               /\ transaction.gas_used * maybe_user_request[1].gas_unit_price
                      >= U64Limit
            THEN CoinPanic(CoinDefault, "overflow")
            ELSE CoinEvents(o2, transaction.events, transaction, 1)

\* ------------------------------------------------------------------------
\* token_models/token_claims.rs: CurrentTokenPendingClaim
\* ------------------------------------------------------------------------
TokenOfferIdType == "0x3::token_transfers::TokenOfferId"
TokenType == "0x3::token::Token"

\* a WriteTableItem or DeleteTableItem as the token extractor reads it.
\* data is the Option of the decoded item: <<>> is None.  key_parses and
\* value_parses: the key and the value deserialize as their types.  A
\* DeleteTableItem has no value: value_type is "".
TableItemData(key_type, key_parses, token_data_id_hash, to_address, value_type, value_parses, amount) ==
    [key_type |-> key_type, key_parses |-> key_parses,
     token_data_id_hash |-> token_data_id_hash, to_address |-> to_address,
     value_type |-> value_type, value_parses |-> value_parses,
     amount |-> amount]

TableItem(handle, data) == [handle |-> handle, data |-> data]

\* TokenWriteSet::from_table_item_type on the key of an item:
\* Result<Option<TokenWriteSet>>
TokenWriteSet_from_key(table_item_data) ==
    IF table_item_data.key_type = TokenOfferIdType
    THEN IF table_item_data.key_parses
         THEN SomeOf([variant |-> "TokenOfferId",
                      token_data_id_hash |-> table_item_data.token_data_id_hash,
                      property_version |-> 0,
                      to_address |-> standardize_address(table_item_data.to_address)])
         ELSE Err
    ELSE IF table_item_data.key_type = TokenType
    THEN IF table_item_data.key_parses
         THEN SomeOf([variant |-> "Token", amount |-> table_item_data.amount])
         ELSE Err
    ELSE None

\* TokenWriteSet::from_table_item_type on the value of an item
TokenWriteSet_from_value(table_item_data) ==
    IF table_item_data.value_type = TokenType
    THEN IF table_item_data.value_parses
         THEN SomeOf([variant |-> "Token", amount |-> table_item_data.amount])
         ELSE Err
    ELSE IF table_item_data.value_type = TokenOfferIdType
    THEN IF table_item_data.value_parses
         THEN SomeOf([variant |-> "TokenOfferId",
                      token_data_id_hash |-> table_item_data.token_data_id_hash,
                      property_version |-> 0,
                      to_address |-> standardize_address(table_item_data.to_address)])
         ELSE Err
    ELSE None

\* table_handle_to_owner.get(&table_handle): the entries with that handle
TableHandleToOwner_get(table_handle_to_owner, table_handle) ==
    {m \in table_handle_to_owner : m.table_handle = table_handle}

\* TableMetadataForToken::get_owner_address
get_owner_address(table_metadata) == standardize_address(table_metadata.owner_address)

\* the row both extractors build
CurrentTokenPendingClaim(offer, table_metadata, amount, table_handle, txn_version, txn_timestamp) ==
    [token_data_id_hash |-> offer.token_data_id_hash,
     property_version |-> offer.property_version,
     from_address |-> get_owner_address(table_metadata),
     to_address |-> offer.to_address,
     amount |-> amount,
     table_handle |-> table_handle,
     last_transaction_version |-> txn_version,
     last_transaction_timestamp |-> txn_timestamp]

\* CurrentTokenPendingClaim::from_write_table_item: Result<Option<Self>>
from_write_table_item(table_item, txn_version, txn_timestamp, table_handle_to_owner) ==
    IF table_item.data = <<>> THEN None
    ELSE LET table_item_data == table_item.data[1]
             key == TokenWriteSet_from_key(table_item_data)
             value == TokenWriteSet_from_value(table_item_data)
             table_handle == standardize_address(table_item.handle)
             maybe_table_metadata ==
                 TableHandleToOwner_get(table_handle_to_owner, table_handle)
         IN IF key.tag = "Err" THEN Err
            ELSE IF key.tag = "None" \/ key.current.variant # "TokenOfferId"
                 THEN None
            ELSE IF value.tag = "Err" THEN Err
            ELSE IF value.tag = "None" \/ value.current.variant # "Token"
                 THEN None
            ELSE IF maybe_table_metadata = {} THEN None
            ELSE SomeOf(CurrentTokenPendingClaim(
                     key.current, CHOOSE m \in maybe_table_metadata : TRUE,
                     value.current.amount, table_handle, txn_version,
                     txn_timestamp))

\* from_delete_table_item with the row left out
from_delete_table_item_absent(table_item, txn_version, txn_timestamp, table_handle_to_owner) ==
    IF table_item.data = <<>> THEN None
    ELSE IF TokenWriteSet_from_key(table_item.data[1]).tag = "Err" THEN Err
    ELSE None
\* CurrentTokenPendingClaim::from_delete_table_item: Result<Option<Self>>
from_delete_table_item(table_item, txn_version, txn_timestamp, table_handle_to_owner) ==
    IF table_item.data = <<>> THEN None
    ELSE LET table_item_data == table_item.data[1]
             key == TokenWriteSet_from_key(table_item_data)
             table_handle == standardize_address(table_item.handle)
             table_metadata ==
                 TableHandleToOwner_get(table_handle_to_owner, table_handle)
         IN IF key.tag = "Err" THEN Err
            ELSE IF key.tag = "None" \/ key.current.variant # "TokenOfferId"
                 THEN None
            ELSE IF table_metadata = {} THEN Err
            ELSE SomeOf(CurrentTokenPendingClaim(
                     key.current, CHOOSE m \in table_metadata : TRUE,
                     0, table_handle, txn_version, txn_timestamp))

\* ------------------------------------------------------------------------
\* token_models/nft_points.rs: NftPoints::from_transaction
\* ------------------------------------------------------------------------
\* the payload of a user request: an entry function call and whether its
\* arguments are the four strings of an nft_points call
Payload(entry_function_id_str, arguments_ok) ==
    [entry_function_id_str |-> entry_function_id_str,
     arguments_ok |-> arguments_ok]

\* timestamp, request and the payload of a request are Options
NftTransaction(version, txn_data, info, timestamp, request, success) ==
    [version |-> version, txn_data |-> txn_data, info |-> info,
     timestamp |-> timestamp, request |-> request, success |-> success]

NftDefault ==
    [row |-> None, panicked |-> FALSE, cause |-> "", unknown_type_count |-> 0]

NftPanic(cause) == [NftDefault EXCEPT !.panicked = TRUE, !.cause = cause]

\* nft_points_contract is an Option
NftPoints_from_transaction(transaction, nft_points_contract) ==
    IF transaction.txn_data = "None"
    THEN [NftDefault EXCEPT !.unknown_type_count = 1]
    ELSE IF transaction.timestamp = <<>> THEN NftPanic("timestamp")
    ELSE IF ~transaction.info THEN NftPanic("info")
    ELSE IF nft_points_contract = <<>> \/ transaction.txn_data # "User"
         THEN NftDefault
    ELSE IF transaction.request = <<>> THEN NftPanic("request")
    ELSE IF transaction.request[1].payload = <<>> THEN NftDefault
    ELSE IF ~transaction.success THEN NftDefault
    ELSE IF transaction.request[1].payload[1].entry_function_id_str
                # nft_points_contract[1]
         THEN NftDefault
    ELSE IF ~transaction.request[1].payload[1].arguments_ok THEN NftDefault
    ELSE [NftDefault EXCEPT !.row =
             SomeOf([transaction_version |-> transaction.version,
                     transaction_timestamp |-> transaction.timestamp[1]])]

\* ------------------------------------------------------------------------
\* fungible_asset_models/v2_fungible_asset_utils.rs: the decoders
\* ------------------------------------------------------------------------
COIN_ADDR == "0x1"

FeeStatementType == "0x1::transaction_fee::FeeStatement"

FungibleAssetEventTypes ==
    {"0x1::fungible_asset::DepositEvent", "0x1::fungible_asset::WithdrawEvent",
     "0x1::fungible_asset::FrozenEvent", "0x1::fungible_asset::Deposit",
     "0x1::fungible_asset::Withdraw", "0x1::fungible_asset::Frozen"}

\* V2FungibleAssetResource::is_resource_supported
is_resource_supported(data_type) ==
    data_type \in {"0x1::fungible_asset::Supply",
                   "0x1::fungible_asset::ConcurrentSupply",
                   "0x1::fungible_asset::Metadata",
                   "0x1::fungible_asset::FungibleStore",
                   "0x1::fungible_asset::ConcurrentFungibleBalance"}

\* FeeStatement::from_event: Option<Self>
FeeStatement_from_data(data_type, parses) ==
    FeeStatement_from_event(
        [type_str |-> data_type, parses |-> parses, amount |-> 0])

\* FungibleAssetEvent::from_event: Result<Option<Self>>
FungibleAssetEvent_from_event(data_type, parses) ==
    IF data_type \in FungibleAssetEventTypes
    THEN IF parses THEN SomeOf([variant |-> data_type]) ELSE Err
    ELSE None

\* from_resource with the fall-through arm passed on as no match
V2FungibleAssetResource_from_resource_none(data_type, parses) ==
    IF is_resource_supported(data_type)
    THEN IF parses THEN SomeOf([variant |-> data_type]) ELSE Err
    ELSE None
\* V2FungibleAssetResource::from_resource: Result<Self>.  The match gives
\* Result<Option<Self>>; the second context() turns Ok(None) into an error
V2FungibleAssetResource_from_resource(data_type, parses) ==
    IF is_resource_supported(data_type)
    THEN IF parses THEN SomeOf([variant |-> data_type]) ELSE Err
    ELSE Err

\* ------------------------------------------------------------------------
\* fungible_asset_models/v2_fungible_asset_utils.rs: FungibleAssetSupply,
\* decoded by serde from a JSON value
\* ------------------------------------------------------------------------
Digits == <<"0", "1", "2", "3", "4", "5", "6", "7", "8", "9">>
DigitValue(c) == (CHOOSE d \in 1..Len(Digits) : Digits[d] = c) - 1

\* s.parse::<BigDecimal>() of a string of digits; a string with another
\* character in it, or none at all, is an error
RECURSIVE parse(_)
parse(s) ==
    IF s = <<>> \/ \E i \in 1..Len(s) : \A d \in 1..Len(Digits) : Digits[d] # s[i]
    THEN Err
    ELSE IF Len(s) = 1 THEN SomeOf(DigitValue(s[1]))
    ELSE SomeOf(10 * parse(SubSeq(s, 1, Len(s) - 1)).current
                    + DigitValue(s[Len(s)]))

\* a JSON value: a string, or a number, each held as its text
JsonString(s) == [kind |-> "string", s |-> s]
JsonNumber(s) == [kind |-> "number", s |-> s]

\* deserialize_from_string: the value has to be a JSON string, which is
\* then parsed
deserialize_from_string(value) ==
    IF value.kind # "string" THEN Err ELSE parse(value.s)

\* the derived Deserialize of FungibleAssetSupply on
\* {"current": current, "maximum": {"vec": vec}}
FungibleAssetSupply_deserialize(payload) ==
    LET current == deserialize_from_string(payload.current)
        vec == [i \in 1..Len(payload.maximum.vec) |->
                   deserialize_from_string(payload.maximum.vec[i])]
    IN IF current.tag = "Err" \/ \E i \in 1..Len(vec) : vec[i].tag = "Err"
       THEN Err
       ELSE SomeOf([current |-> current.current,
                    maximum |-> [vec |-> [i \in 1..Len(vec) |-> vec[i].current]]])

\* get_maximum taking the last element of vec
get_maximum_last(self) ==
    IF self.maximum.vec = <<>> THEN <<>>
    ELSE <<self.maximum.vec[Len(self.maximum.vec)]>>
\* FungibleAssetSupply::get_maximum: self.maximum.vec.first()
get_maximum(self) ==
    IF self.maximum.vec = <<>> THEN <<>> ELSE <<self.maximum.vec[1]>>
\* ------------------------------------------------------------------------
\* utils/util.rs: parse_timestamp and parse_timestamp_secs.  The integers
\* are scaled: u64 is 0..U64Limit - 1, i64 is -I64Limit..I64Limit - 1,
\* u32 is 0..U32Limit - 1 and i32 is -I32Limit..I32Limit - 1
\* ------------------------------------------------------------------------
U32Limit == 8          \* stands for 2^32
I64Limit == U64Limit \div 2
I32Limit == U32Limit \div 2
MAX_TIMESTAMP_SECS == 5    \* stands for 253_402_300_799, 9999-12-31 23:59:59
ChronoMinSecs == -7    \* the first second a NaiveDateTime can hold
ChronoMaxSecs == 6     \* the last one, past MAX_TIMESTAMP_SECS
NanosPerSec == 2       \* stands for 1_000_000_000

\* x as u32 of an i32, x as i64 of a u64
as_u32(x) == x % U32Limit
as_i64(x) == IF x >= I64Limit THEN x - U64Limit ELSE x

\* chrono::NaiveDateTime::from_timestamp_opt: None out of range; nanoseconds
\* of a second and more stand for a leap second, in the last second of a
\* minute only.  A NaiveDateTime is held as its timestamp() and its
\* timestamp_subsec_nanos()
from_timestamp_opt(secs, nsecs) ==
    IF /\ secs >= ChronoMinSecs
       /\ secs <= ChronoMaxSecs
       /\ \/ nsecs < NanosPerSec
          \/ nsecs < 2 * NanosPerSec /\ secs % 60 = 59
    THEN <<[seconds |-> secs, nanos |-> nsecs]>>
    ELSE <<>>

\* parse_timestamp: None of from_timestamp_opt panics
parse_timestamp(ts, version) ==
    LET final_ts == IF ts.seconds >= MAX_TIMESTAMP_SECS
                    THEN [seconds |-> MAX_TIMESTAMP_SECS, nanos |-> 0]
                    ELSE ts
        ndt == from_timestamp_opt(final_ts.seconds, as_u32(final_ts.nanos))
    IN IF ndt = <<>> THEN Err ELSE SomeOf(ndt[1])

\* parse_timestamp_secs with the cast to i64 made before the min
parse_timestamp_secs_cast_first(ts, version) ==
    LET secs == IF as_i64(ts) <= MAX_TIMESTAMP_SECS THEN as_i64(ts)
                ELSE MAX_TIMESTAMP_SECS
        ndt == from_timestamp_opt(secs, 0)
    IN IF ndt = <<>> THEN Err ELSE SomeOf(ndt[1])
\* parse_timestamp_secs: std::cmp::min(ts, MAX_TIMESTAMP_SECS as u64) as i64
parse_timestamp_secs(ts, version) ==
    LET max == MAX_TIMESTAMP_SECS % U64Limit
        secs == as_i64(IF ts <= max THEN ts ELSE max)
        ndt == from_timestamp_opt(secs, 0)
    IN IF ndt = <<>> THEN Err ELSE SomeOf(ndt[1])
\* ------------------------------------------------------------------------
\* default_models/write_set_changes.rs: WriteSetChange
\* ------------------------------------------------------------------------
\* WriteSetChange::from_write_set_change: None for an entry without its
\* change; detail stands for the WriteSetChangeDetail built from the change
from_write_set_change(write_set_change, index, transaction_version) ==
    IF write_set_change.change = "None" THEN <<>>
    ELSE <<[transaction_version |-> transaction_version, index |-> index,
            detail |-> write_set_change]>>

\* WriteSetChange::from_write_set_changes: iter().enumerate().filter_map(..),
\* the index counted from 0 over the whole list
RECURSIVE from_write_set_changes_from(_, _, _)
from_write_set_changes_from(write_set_changes, transaction_version, i) ==
    IF i > Len(write_set_changes) THEN <<>>
    ELSE from_write_set_change(write_set_changes[i], i - 1, transaction_version)
            \o from_write_set_changes_from(write_set_changes,
                                           transaction_version, i + 1)

from_write_set_changes(write_set_changes, transaction_version) ==
    from_write_set_changes_from(write_set_changes, transaction_version, 1)
\* ------------------------------------------------------------------------
\* SpecDb: the statements applied to the tables, with any rows, in any order
\* ------------------------------------------------------------------------
NoResult == [tag |-> "None"]
NoTables == [t \in Tables |-> {}]
NoRun == [batch |-> <<>>, base |-> NoTables, result |-> NoResult]

\* process_transactions is not called
NoRuns ==
    /\ chain = <<>>
    /\ deprecated_tables = {}
    /\ runs = 0
    /\ transactions = <<>>
    /\ tasks = <<>>
    /\ result = NoResult
    /\ base = NoTables
    /\ prev = NoRun
    /\ failures = 0
    /\ outlived = FALSE
    /\ applied = [t \in CurrentTables |-> {}]

RowUniverse(t) ==
    CASE t = "current_ans_lookup" ->
            [domain : {"d1"}, subdomain : {""}, registered_address : Addresses,
             expiration_timestamp : {10}, last_transaction_version : Versions,
             token_name : {"d1"}, is_deleted : BOOLEAN]
      [] t = "ans_lookup" ->
            [transaction_version : Versions, write_set_change_index : {0},
             domain : {"d1"}, subdomain : {""}, registered_address : Addresses,
             expiration_timestamp : {10}, token_name : {"d1"}, is_deleted : {FALSE}]
      [] t = "current_ans_primary_name" ->
            [registered_address : {"a1"}, domain : Domains, subdomain : {""},
             token_name : {"d1"}, is_deleted : BOOLEAN,
             last_transaction_version : Versions]
      [] t = "ans_primary_name" ->
            [transaction_version : Versions, write_set_change_index : {0},
             registered_address : {"a1"}, domain : Domains, subdomain : {""},
             token_name : {"d1"}, is_deleted : {FALSE}]
      [] t = "current_ans_lookup_v2" ->
            [domain : {"d1"}, subdomain : {""}, token_standard : {"v2"},
             registered_address : Addresses, expiration_timestamp : {10},
             last_transaction_version : Versions, token_name : {"d1"},
             is_deleted : {FALSE}, subdomain_expiration_policy : Policies]
      [] t = "ans_lookup_v2" ->
            [transaction_version : Versions, write_set_change_index : {0},
             domain : {"d1"}, subdomain : {""}, token_standard : {"v2"},
             registered_address : Addresses, expiration_timestamp : {10},
             token_name : {"d1"}, is_deleted : {FALSE},
             subdomain_expiration_policy : Policies]
      [] t = "current_ans_primary_name_v2" ->
            [registered_address : {"a1"}, token_standard : {"v1", "v2"},
             domain : Domains, subdomain : {""}, token_name : {"d1"},
             is_deleted : {FALSE}, last_transaction_version : Versions]
      [] t = "ans_primary_name_v2" ->
            [transaction_version : Versions, write_set_change_index : {0},
             registered_address : {"a1"}, token_standard : {"v2"},
             domain : Domains, subdomain : {""}, token_name : {"d1"},
             is_deleted : {FALSE}]

\* SpecDb executes one-row statements
Statements(t) == {<<r>> : r \in RowUniverse(t)}

ExecuteStatement(t, items) ==
    /\ nstmts < MaxStatements
    /\ db' = [db EXCEPT ![t] = Query(t, db[t], items)]
    /\ last' = [table |-> t, items |-> items, before |-> db[t]]
    /\ nstmts' = nstmts + 1
    /\ UNCHANGED <<parseVars, coin, call, ret, runVars>>

InitDb ==
    /\ db = [t \in Tables |-> {}]
    /\ last = NoStatement
    /\ nstmts = 0
    /\ pc = "idle"
    /\ accs = EmptyAcc
    /\ versions = <<>>
    /\ parsed = [t \in Tables |-> <<>>]
    /\ coin = CoinDefault
    /\ call = NoCall
    /\ ret = None
    /\ NoRuns

NextDb == \E t \in Tables : \E items \in Statements(t) : ExecuteStatement(t, items)

SpecDb == InitDb /\ [][NextDb]_vars

\* the row stored under the conflict target of r
Now(t, r) == Stored(t, db[t], r)
Before(t, r) == Stored(t, last.before, r)
LastRows == {last.items[i] : i \in 1..Len(last.items)}

\* C1: an incoming row of a current-state table whose
\* last_transaction_version is strictly below the stored row's leaves the
\* stored row unchanged, and the stored watermark of a key never decreases.
C1_StaleUpdateIgnored ==
    last.table \in CurrentTables =>
        /\ \A r \in LastRows : \A s \in Before(last.table, r) :
              r.last_transaction_version < s.last_transaction_version
                  => Now(last.table, r) = {s}
        /\ \A s \in last.before : \E n \in db[last.table] :
              /\ ConflictTarget(last.table, n) = ConflictTarget(last.table, s)
              /\ n.last_transaction_version >= s.last_transaction_version

C1_Witness ==
    /\ last.table \in CurrentTables
    /\ \E r \in LastRows : \E s \in Before(last.table, r) :
          /\ r.last_transaction_version < s.last_transaction_version
          /\ r # [s EXCEPT !.last_transaction_version = r.last_transaction_version]

\* C2 as claimed: in every activity table, inserting a row whose primary key
\* is already stored changes no column of the stored row.
C2_ActivityInsertIsNoOp ==
    last.table \in ActivityTables =>
        \A r \in LastRows : \A s \in Before(last.table, r) :
            Now(last.table, r) = {s}

\* C2 amended: that holds for ans_lookup, ans_primary_name and
\* ans_primary_name_v2; in ans_lookup_v2 the stored row takes the incoming
\* row's subdomain_expiration_policy and keeps every other column.
C2_ActivityInsertAmended ==
    last.table \in ActivityTables =>
        \A r \in LastRows : \A s \in Before(last.table, r) :
            IF last.table = "ans_lookup_v2"
            THEN Now(last.table, r) =
                    {[s EXCEPT !.subdomain_expiration_policy =
                                   r.subdomain_expiration_policy]}
            ELSE Now(last.table, r) = {s}

C2_Witness ==
    /\ last.table \in ActivityTables \ {"ans_lookup_v2"}
    /\ \E r \in LastRows : \E s \in Before(last.table, r) : r # s

\* C6: an upsert whose last_transaction_version equals the stored row's
\* replaces every non-key column of the stored row by the incoming value.
C6_EqualVersionOverwrites ==
    last.table \in CurrentTables =>
        \A r \in LastRows : \A s \in Before(last.table, r) :
            r.last_transaction_version = s.last_transaction_version
                => Now(last.table, r) = {r}

C6_Witness ==
    /\ last.table \in CurrentTables
    /\ \E r \in LastRows : \E s \in Before(last.table, r) :
          /\ r.last_transaction_version = s.last_transaction_version
          /\ r # s
          /\ Now(last.table, r) = {r}

\* ------------------------------------------------------------------------
\* SpecParse: parse_ans over any batch, one transaction at a time
\* ------------------------------------------------------------------------
MaxBatch == 2          \* transactions in a batch
MaxEvents == 1         \* events of a transaction
MaxChanges == 2        \* write set changes of a transaction
MaxCoinEvents == 2     \* events of a transaction given to the coin extractor
MaxCoinChanges == 2    \* write set changes of such a transaction

SeqsUpTo(S, n) == UNION {[1..k -> S] : k \in 0..n}

AnsTransactions(version) ==
    {Transaction(version, d, i, <<>>, <<>>) :
        d \in {"None", "User", "BlockMetadata"}, i \in BOOLEAN}
    \cup {Transaction(version, "User", TRUE, e, c) :
            e \in SeqsUpTo(AnsEvents, MaxEvents),
            c \in SeqsUpTo(AnsChanges, MaxChanges)}

A1 == <<"0", "x", "1">>
A1Short == <<"1">>

A2 == <<"0", "x", "2">>

CoinEventPBs ==
    {CoinEventPB("0x1::coin::DepositEvent", TRUE, A1, 2, 0, 5),
     CoinEventPB("0x1::coin::DepositEvent", TRUE, A1Short, 2, 1, 6),
     CoinEventPB("0x1::coin::WithdrawEvent", TRUE, A1Short, 3, 0, 4),
     CoinEventPB("0x1::coin::DepositEvent", FALSE, A1, 2, 2, 5),
     CoinEventPB("0x1::transaction_fee::FeeStatement", TRUE, A1, 0, 0, 3),
     CoinEventPB("0x1::transaction_fee::FeeStatement", TRUE, A1, 0, 0, 2),
     CoinEventPB("0x1::transaction_fee::FeeStatement", FALSE, A1, 0, 0, 3),
     CoinEventPB("Other", TRUE, A1, 4, 0, 1)}

\* the events a transaction can carry: an event handle numbers its events,
\* so no two events of a transaction share account address, creation number
\* and sequence number; a FeeStatement is a module event, of no handle
EventLists ==
    {es \in SeqsUpTo(CoinEventPBs, MaxCoinEvents) :
        \A i, j \in 1..Len(es) :
            (i < j /\ es[i].type_str # "0x1::transaction_fee::FeeStatement") =>
                <<standardize_address(es[i].account_address),
                  es[i].creation_number, es[i].sequence_number>>
                # <<standardize_address(es[j].account_address),
                    es[j].creation_number, es[j].sequence_number>>}

CoinChanges0 ==
    {CoinChange("None", "", TRUE, A1, "X", 2),
     CoinChange("WriteResource", "CoinStore", TRUE, A1Short, "X", 2),
     CoinChange("WriteResource", "CoinStore", FALSE, A1, "X", 2),
     CoinChange("WriteResource", "CoinInfo", TRUE, A1, "X", 0),
     CoinChange("WriteTableItem", "Other", TRUE, A1, "X", 0)}

CoinTransactions(version) ==
    {CoinTransaction(version, d, i, ts, <<>>, 0, <<>>, <<>>) :
        d \in {"None", "Genesis", "BlockMetadata"}, i \in BOOLEAN,
        ts \in {<<>>, <<100 * version>>}}
    \cup {CoinTransaction(version, "User", TRUE, <<100 * version>>,
                          <<UserTransactionRequest(A1Short, 7, 3)>>, g, e, c) :
            g \in {2, 6},
            e \in EventLists,
            c \in SeqsUpTo(CoinChanges0, MaxCoinChanges)}

\* one call of CoinActivity::from_transaction by the coin processor; pc is
\* "coin_returned" when it returned and "coin_panicked" when it panicked
FromTransaction(transaction, overflow_checks) ==
    /\ pc = "coin"
    /\ coin' = from_transaction(transaction, overflow_checks)
    /\ call' = [fn |-> "CoinActivity::from_transaction",
                transaction |-> transaction,
                overflow_checks |-> overflow_checks]
    /\ pc' = IF coin'.panicked THEN "coin_panicked" ELSE "coin_returned"
    /\ UNCHANGED <<accs, versions, parsed, dbVars, ret, runVars>>

\* one iteration of `for transaction in transactions`
ParseTransaction(transaction) ==
    /\ pc = "parse"
    /\ Len(versions) < MaxBatch
    /\ accs' = ParseTransactionBody(accs, transaction)
    /\ versions' = Append(versions, transaction.version)
    /\ call' = [fn |-> "parse_ans",
                no_data |-> (IF call.fn = "parse_ans" THEN call.no_data ELSE <<>>)
                            \o (IF transaction.txn_data = "None"
                                THEN <<transaction.version>> ELSE <<>>)]
    /\ pc' = IF accs'.panicked THEN "panicked" ELSE "parse"
    /\ UNCHANGED <<parsed, dbVars, coin, ret, runVars>>

\* the end of the loop: collect, sort, return
ParseAnsReturns ==
    /\ pc = "parse"
    /\ versions # <<>>
    /\ parsed' = Returned(accs)
    /\ pc' = "parsed"
    /\ UNCHANGED <<accs, versions, dbVars, coin, call, ret, runVars>>

\* what the token extractors and the decoders are given
TokenHandles == {A1, A1Short, A2}

TableItemDatas ==
    {TableItemData(kt, kp, h, to, vt, vp, a) :
        kt \in {TokenOfferIdType, TokenType, "Other"}, kp \in BOOLEAN,
        h \in {"h1", "h2"}, to \in {A1Short, A2},
        vt \in {TokenType, "Other"}, vp \in BOOLEAN, a \in {1, 2}}

TableItems ==
    {TableItem(h, d) :
        h \in TokenHandles, d \in {<<>>} \cup {<<x>> : x \in TableItemDatas}}

\* the auxiliary index: table handle, standardized, to its owner
TableHandleToOwners ==
    {{}, {[table_handle |-> standardize_address(A1), owner_address |-> A2]}}

NftContract == "0x1::nft::points"

NftTransactions(version) ==
    {NftTransaction(version, d, i, ts, rq, ok) :
        d \in {"None", "User", "BlockMetadata"}, i \in BOOLEAN,
        ts \in {<<>>, <<100 * version>>},
        rq \in {<<>>, <<[payload |-> <<>>]>>}
               \cup {<<[payload |-> <<Payload(f, a)>>]>> :
                        f \in {NftContract, "0x1::coin::transfer"},
                        a \in BOOLEAN},
        ok \in BOOLEAN}

DataTypes ==
    FungibleAssetEventTypes
    \cup {FeeStatementType, "0x1::fungible_asset::Supply",
          "0x1::fungible_asset::ConcurrentSupply",
          "0x1::fungible_asset::Metadata", "0x1::fungible_asset::FungibleStore",
          "0x1::fungible_asset::ConcurrentFungibleBalance",
          "0x1::coin::CoinStore", "0x1::object::ObjectCore"}

\* one call of NftPoints::from_transaction by the token processor
NftPointsFromTransaction(transaction, nft_points_contract) ==
    /\ pc = "token"
    /\ ret' = NftPoints_from_transaction(transaction, nft_points_contract)
    /\ call' = [fn |-> "NftPoints::from_transaction",
                transaction |-> transaction,
                nft_points_contract |-> nft_points_contract]
    /\ pc' = IF ret'.panicked THEN "token_panicked" ELSE "token_returned"
    /\ UNCHANGED <<accs, versions, parsed, dbVars, coin, runVars>>

\* one call of CurrentTokenPendingClaim::from_write_table_item
FromWriteTableItem(table_item, txn_version, table_handle_to_owner) ==
    /\ pc = "token"
    /\ ret' = from_write_table_item(table_item, txn_version, 100 * txn_version,
                                    table_handle_to_owner)
    /\ call' = [fn |-> "CurrentTokenPendingClaim::from_write_table_item",
                table_item |-> table_item, txn_version |-> txn_version,
                table_handle_to_owner |-> table_handle_to_owner]
    /\ pc' = "token_returned"
    /\ UNCHANGED <<accs, versions, parsed, dbVars, coin, runVars>>

\* one call of CurrentTokenPendingClaim::from_delete_table_item
FromDeleteTableItem(table_item, txn_version, table_handle_to_owner) ==
    /\ pc = "token"
    /\ ret' = from_delete_table_item(table_item, txn_version, 100 * txn_version,
                                     table_handle_to_owner)
    /\ call' = [fn |-> "CurrentTokenPendingClaim::from_delete_table_item",
                table_item |-> table_item, txn_version |-> txn_version,
                table_handle_to_owner |-> table_handle_to_owner]
    /\ pc' = "token_returned"
    /\ UNCHANGED <<accs, versions, parsed, dbVars, coin, runVars>>

\* one call of a decoder of v2_fungible_asset_utils.rs
FeeStatementFromEvent(data_type, parses) ==
    /\ pc = "decode"
    /\ ret' = FeeStatement_from_data(data_type, parses)
    /\ call' = [fn |-> "FeeStatement::from_event",
                data_type |-> data_type, parses |-> parses]
    /\ pc' = "decoded"
    /\ UNCHANGED <<accs, versions, parsed, dbVars, coin, runVars>>

FungibleAssetEventFromEvent(data_type, parses) ==
    /\ pc = "decode"
    /\ ret' = FungibleAssetEvent_from_event(data_type, parses)
    /\ call' = [fn |-> "FungibleAssetEvent::from_event",
                data_type |-> data_type, parses |-> parses]
    /\ pc' = "decoded"
    /\ UNCHANGED <<accs, versions, parsed, dbVars, coin, runVars>>

FromResource(data_type, parses) ==
    /\ pc = "decode"
    /\ ret' = V2FungibleAssetResource_from_resource(data_type, parses)
    /\ call' = [fn |-> "V2FungibleAssetResource::from_resource",
                data_type |-> data_type, parses |-> parses]
    /\ pc' = "decoded"
    /\ UNCHANGED <<accs, versions, parsed, dbVars, coin, runVars>>

InitParse ==
    /\ db = [t \in Tables |-> {}]
    /\ last = NoStatement
    /\ nstmts = 0
    /\ pc \in {"parse", "coin", "token"}
    /\ accs = EmptyAcc
    /\ versions = <<>>
    /\ parsed = [t \in Tables |-> <<>>]
    /\ coin = CoinDefault
    /\ call = NoCall
    /\ ret = None
    /\ NoRuns

NextParse ==
    \/ /\ pc = "parse"
       /\ \E v \in Versions \ {versions[i] : i \in 1..Len(versions)} :
             \E transaction \in AnsTransactions(v) : ParseTransaction(transaction)
    \/ ParseAnsReturns
    \/ /\ pc = "coin"
       /\ \E v \in Versions : \E transaction \in CoinTransactions(v) :
             \E overflow_checks \in BOOLEAN :
                 FromTransaction(transaction, overflow_checks)
    \/ /\ pc = "token"
       /\ \E v \in Versions : \E transaction \in NftTransactions(v) :
             \E nft_points_contract \in {<<>>, <<NftContract>>} :
                 NftPointsFromTransaction(transaction, nft_points_contract)

SpecParse == InitParse /\ [][NextParse]_vars

\* the strings standardize_address is called with: a run of one character,
\* short, of the full width and longer, behind no prefix, behind 0x, behind
\* 0x twice and behind a character of the prefix
HandleLengths == {0, 1, 2, AddressDigits - 1, AddressDigits, AddressDigits + 1}
HandlePrefixes == {<<>>, <<"0", "x">>, <<"0", "x", "0", "x">>, <<"0">>, <<"x">>}
Handles ==
    {prefix \o [i \in 1..n |-> c] :
        prefix \in HandlePrefixes, n \in HandleLengths, c \in {"1", "f"}}

\* one call of standardize_address, and one of it on its own result
StandardizeAddress(handle) ==
    /\ pc = "decode"
    /\ call' = [fn |-> "standardize_address", handle |-> handle]
    /\ ret' = Some(standardize_address(handle),
                   standardize_address(standardize_address(handle)))
    /\ pc' = "decoded"
    /\ UNCHANGED <<accs, versions, parsed, dbVars, coin, runVars>>
MaxVec == 2            \* elements of the "vec" container of a Supply payload

\* the JSON values of the fields of a Supply payload
JsonValues ==
    {JsonString(<<"0">>), JsonString(<<"1", "0", "0">>),
     JsonString(<<"5", "0", "0", "0">>), JsonString(<<"0", "4", "2">>),
     JsonString(<<"x">>), JsonString(<<>>), JsonNumber(<<"1", "0", "0">>)}

SupplyPayloads ==
    {[current |-> current, maximum |-> [vec |-> vec]] :
        current \in JsonValues, vec \in SeqsUpTo(JsonValues, MaxVec)}

\* one decoding of a Supply payload, and get_maximum of what it gives
DecodeSupply(payload) ==
    /\ pc = "decode"
    /\ call' = [fn |-> "FungibleAssetSupply", payload |-> payload]
    /\ ret' = LET supply == FungibleAssetSupply_deserialize(payload)
              IN IF supply.tag = "Err" THEN Err
                 ELSE Some(supply.current, get_maximum(supply.current))
    /\ pc' = "decoded"
    /\ UNCHANGED <<accs, versions, parsed, dbVars, coin, runVars>>
\* the Timestamp messages: any i64 seconds and any i32 nanos
Timestamps ==
    [seconds : (-I64Limit)..(I64Limit - 1), nanos : (-I32Limit)..(I32Limit - 1)]

\* one call of parse_timestamp; ret is Err when it panicked
ParseTimestamp(ts, version) ==
    /\ pc = "decode"
    /\ call' = [fn |-> "parse_timestamp", ts |-> ts, version |-> version]
    /\ ret' = parse_timestamp(ts, version)
    /\ pc' = "decoded"
    /\ UNCHANGED <<accs, versions, parsed, dbVars, coin, runVars>>

\* one call of parse_timestamp_secs
ParseTimestampSecs(ts, version) ==
    /\ pc = "decode"
    /\ call' = [fn |-> "parse_timestamp_secs", ts |-> ts, version |-> version]
    /\ ret' = parse_timestamp_secs(ts, version)
    /\ pc' = "decoded"
    /\ UNCHANGED <<accs, versions, parsed, dbVars, coin, runVars>>
\* the transactions that follow another one in a batch of the coin
\* processor: one event, and a write set that maps its GUID or does not
CoinFollowers(version) ==
    {CoinTransaction(version, "User", TRUE, <<100 * version>>,
                     <<UserTransactionRequest(A1Short, 8, 3)>>, 2, <<e>>, c) :
        e \in {CoinEventPB("0x1::coin::DepositEvent", TRUE, A1, 2, 3, 5),
               CoinEventPB("0x1::coin::WithdrawEvent", TRUE, A1Short, 3, 1, 4),
               CoinEventPB("0x1::coin::DepositEvent", TRUE, A2, 2, 0, 6)},
        c \in {<<>>,
               <<CoinChange("WriteResource", "CoinStore", TRUE, A1Short, "X", 2)>>,
               <<CoinChange("WriteResource", "CoinStore", TRUE, A2, "Y", 2)>>}}

\* the call of CoinActivity::from_transaction for the next transaction of
\* the batch, after the call for the transaction before it has returned; the
\* batches are those whose first transaction has at most one event and one
\* write set change
FromTransactionNext(transaction, overflow_checks) ==
    /\ pc = "coin_returned"
    /\ "earlier" \notin DOMAIN call
    /\ Len(call.transaction.events) <= 1
    /\ Len(call.transaction.changes) <= 1
    /\ transaction.version = call.transaction.version + 1
    /\ coin' = from_transaction(transaction, overflow_checks)
    /\ call' = [fn |-> "CoinActivity::from_transaction",
                transaction |-> transaction,
                overflow_checks |-> overflow_checks,
                earlier |-> call.transaction]
    /\ pc' = IF coin'.panicked THEN "coin_panicked" ELSE "coin_returned"
    /\ UNCHANGED <<accs, versions, parsed, dbVars, ret, runVars>>
\* the user transactions that carry write set changes and no event
AnsChangeTransactions(version) ==
    {Transaction(version, "User", TRUE, <<>>, c) :
        c \in SeqsUpTo(AnsChanges, MaxChanges)}

\* parse_ans and WriteSetChange::from_write_set_changes, each called once
\* with the same transaction
ParseAnsAndWriteSetChanges(transaction) ==
    /\ pc = "decode"
    /\ accs' = ParseTransactionBody(EmptyAcc, transaction)
    /\ versions' = <<transaction.version>>
    /\ parsed' = IF accs'.panicked THEN parsed ELSE Returned(accs')
    /\ call' = [fn |-> "parse_ans",
                no_data |-> IF transaction.txn_data = "None"
                            THEN <<transaction.version>> ELSE <<>>,
                transaction |-> transaction]
    /\ ret' = SomeOf(from_write_set_changes(transaction.changes,
                                            transaction.version))
    /\ pc' = IF accs'.panicked THEN "panicked" ELSE "parsed"
    /\ UNCHANGED <<dbVars, coin, runVars>>
\* SpecExtract: the extractors and decoders that take one transaction, one
\* table item or one payload, each called with any input
InitExtract ==
    /\ db = [t \in Tables |-> {}]
    /\ last = NoStatement
    /\ nstmts = 0
    /\ pc \in {"coin", "token", "decode"}
    /\ accs = EmptyAcc
    /\ versions = <<>>
    /\ parsed = [t \in Tables |-> <<>>]
    /\ coin = CoinDefault
    /\ call = NoCall
    /\ ret = None
    /\ NoRuns

NextExtract ==
    \/ /\ pc = "coin"
       /\ \E v \in Versions : \E transaction \in CoinTransactions(v) :
             \E overflow_checks \in BOOLEAN :
                 FromTransaction(transaction, overflow_checks)
    \/ /\ pc = "coin_returned"
       /\ \E v \in Versions : \E transaction \in CoinFollowers(v) :
             \E overflow_checks \in BOOLEAN :
                 FromTransactionNext(transaction, overflow_checks)
    \/ /\ pc = "token"
       /\ \E v \in Versions : \E transaction \in NftTransactions(v) :
             \E nft_points_contract \in {<<>>, <<NftContract>>} :
                 NftPointsFromTransaction(transaction, nft_points_contract)
    \/ /\ pc = "token"
       /\ \E table_item \in TableItems : \E v \in Versions :
             \E table_handle_to_owner \in TableHandleToOwners :
                 FromWriteTableItem(table_item, v, table_handle_to_owner)
    \/ /\ pc = "token"
       /\ \E table_item \in TableItems : \E v \in Versions :
             \E table_handle_to_owner \in TableHandleToOwners :
                 FromDeleteTableItem(table_item, v, table_handle_to_owner)
    \/ /\ pc = "decode"
       /\ \E data_type \in DataTypes : \E parses \in BOOLEAN :
             FeeStatementFromEvent(data_type, parses)
    \/ /\ pc = "decode"
       /\ \E data_type \in DataTypes : \E parses \in BOOLEAN :
             FungibleAssetEventFromEvent(data_type, parses)
    \/ /\ pc = "decode"
       /\ \E data_type \in DataTypes : \E parses \in BOOLEAN :
             FromResource(data_type, parses)
    \/ /\ pc = "decode"
       /\ \E handle \in Handles : StandardizeAddress(handle)
    \/ /\ pc = "decode"
       /\ \E payload \in SupplyPayloads : DecodeSupply(payload)
    \/ /\ pc = "decode"
       /\ \E v \in Versions : \E transaction \in AnsChangeTransactions(v) :
             ParseAnsAndWriteSetChanges(transaction)
    \/ /\ pc = "decode"
       /\ \E ts \in Timestamps : \E v \in Versions : ParseTimestamp(ts, v)
    \/ /\ pc = "decode"
       /\ \E ts \in 0..(U64Limit - 1) : \E v \in Versions :
             ParseTimestampSecs(ts, v)

SpecExtract == InitExtract /\ [][NextExtract]_vars

RowsOf(seq) == {seq[i] : i \in 1..Len(seq)}
Ascending(seq) == \A i, j \in 1..Len(seq) : i < j => seq[i] < seq[j]
\* the last row of seq with the key of r
LastFor(t, seq, r) ==
    LET is == {i \in 1..Len(seq) : pk(t, seq[i]) = pk(t, r)}
    IN seq[CHOOSE i \in is : \A j \in is : j <= i]

\* C3 as claimed: when extraction yields two updates of one key at
\* different versions, parse_ans returns the one with the higher version, in
\* whichever order the two are met.
C3_HighestVersionWins ==
    pc = "parsed" =>
        \A t \in CurrentTables : \A r \in RowsOf(accs.extracted[t]) :
            \E o \in RowsOf(parsed[t]) :
                /\ pk(t, o) = pk(t, r)
                /\ o.last_transaction_version >= r.last_transaction_version

\* C3 amended: parse_ans returns, for each key, the update met last; that is
\* the one with the highest version when the transactions of the batch are in
\* ascending version order.
C3_LastMetWins ==
    pc = "parsed" =>
        \A t \in CurrentTables : \A r \in RowsOf(accs.extracted[t]) :
            /\ LastFor(t, accs.extracted[t], r) \in RowsOf(parsed[t])
            /\ Ascending(versions) =>
                  \E o \in RowsOf(parsed[t]) :
                      /\ pk(t, o) = pk(t, r)
                      /\ o.last_transaction_version >= r.last_transaction_version

C3_Witness ==
    /\ pc = "parsed"
    /\ Ascending(versions)
    /\ \E t \in CurrentTables : \E r1, r2 \in RowsOf(accs.extracted[t]) :
          /\ pk(t, r1) = pk(t, r2)
          /\ r1.last_transaction_version < r2.last_transaction_version
          /\ r2 \in RowsOf(parsed[t])

\* C7: each current-state row set parse_ans returns has at most one row per
\* key and is in ascending key order.
C7_OneRowPerKeySorted ==
    pc = "parsed" =>
        \A t \in CurrentTables : \A i, j \in 1..Len(parsed[t]) :
            i < j => KeyLess(pk(t, parsed[t][i]), pk(t, parsed[t][j]))

C7_Witness ==
    /\ pc = "parsed"
    /\ \E t \in CurrentTables :
          /\ Len(parsed[t]) >= 2
          /\ Len(accs.extracted[t]) > Len(parsed[t])

\* C10 as claimed: a payload of a supported type that does not parse never
\* aborts the extraction: parse_ans and CoinActivity::from_transaction panic
\* only for a transaction that lacks its info or timestamp block (or, for the
\* gas amount, on integer overflow).
C10_MalformedPayloadOnlyDropped ==
    /\ pc = "panicked" => accs.cause = "info"
    /\ pc = "coin_panicked" => coin.cause \in {"info", "timestamp", "overflow"}

\* ------------------------------------------------------------------------
\* Spec: AnsProcessor::process_transactions over batches of a chain, with
\* the chunk writes of insert_to_db running concurrently
\* ------------------------------------------------------------------------
MaxRuns == 2           \* calls of process_transactions
MaxFailures == 1       \* chunk writes that fail

\* the transactions a chain is made of, without their version
ChainBodies ==
    {[txn_data |-> "User", info |-> TRUE, events |-> <<>>,
      changes |-> <<Change("WriteTableItem", "name_records", TRUE, "d1", "a1")>>],
     [txn_data |-> "User", info |-> TRUE, events |-> <<>>,
      changes |-> <<Change("DeleteTableItem", "name_records", TRUE, "d1", "a1")>>],
     [txn_data |-> "User", info |-> TRUE, events |-> <<>>,
      changes |-> <<Change("WriteTableItem", "primary_names", TRUE, "d1", "a1")>>],
     [txn_data |-> "User", info |-> TRUE,
      events |-> <<Event("SetReverseLookupEvent", FALSE, "a1", "d1")>>,
      changes |-> <<>>]}

Chains ==
    {[v \in Versions |->
        Transaction(v, c[v].txn_data, c[v].info, c[v].events, c[v].changes)] :
     c \in [Versions -> ChainBodies]}

\* the input contract: the versions of a batch are contiguous and ascending
Batches ==
    {[i \in 1..r[2] |-> r[1] + i - 1] :
        r \in {x \in Versions \X (1..MaxBatch) : x[1] + x[2] - 1 <= MaxVersion}}

TableFlags ==
    {"ANS_PRIMARY_NAME", "ANS_PRIMARY_NAME_V2", "ANS_LOOKUP",
     "CURRENT_ANS_LOOKUP", "CURRENT_ANS_PRIMARY_NAME"}

DeprecatedConfigs == {{}} \cup {{f} : f \in TableFlags}

\* process_transactions without its clear() calls
Cleared_nothing(rows, deprecated) == rows
\* the clear() calls of process_transactions
Cleared(rows, deprecated) ==
    [t \in Tables |->
        IF \/ t = "ans_primary_name" /\ "ANS_PRIMARY_NAME" \in deprecated
           \/ t = "ans_primary_name_v2" /\ "ANS_PRIMARY_NAME_V2" \in deprecated
           \/ t = "ans_lookup" /\ "ANS_LOOKUP" \in deprecated
           \/ t = "current_ans_lookup" /\ "CURRENT_ANS_LOOKUP" \in deprecated
           \/ t = "current_ans_primary_name"
                 /\ "CURRENT_ANS_PRIMARY_NAME" \in deprecated
        THEN <<>> ELSE rows[t]]

\* items_to_insert.chunks(chunk_size)
chunks_first_only(items, chunk_size) ==
    IF items = <<>> THEN <<>>
    ELSE <<SubSeq(items, 1, IF Len(items) <= chunk_size THEN Len(items)
                            ELSE chunk_size)>>
RECURSIVE chunks(_, _)
chunks(items, chunk_size) ==
    IF items = <<>> THEN <<>>
    ELSE IF Len(items) <= chunk_size THEN <<items>>
    ELSE <<SubSeq(items, 1, chunk_size)>>
            \o chunks(SubSeq(items, chunk_size + 1, Len(items)), chunk_size)

\* execute_in_chunks: one write per chunk
execute_in_chunks(t, items_to_insert, chunk_size) ==
    LET cs == chunks(items_to_insert, chunk_size)
    IN [i \in 1..Len(cs) |->
           [table |-> t, items |-> cs[i], status |-> "pending"]]

\* the order of the eight execute_in_chunks calls of insert_to_db
TableOrder ==
    <<"current_ans_lookup", "ans_lookup", "current_ans_primary_name",
      "ans_primary_name", "current_ans_lookup_v2", "ans_lookup_v2",
      "current_ans_primary_name_v2", "ans_primary_name_v2">>

RECURSIVE insert_to_db_writes(_, _)
insert_to_db_writes(rows, i) ==
    IF i > Len(TableOrder) THEN <<>>
    ELSE execute_in_chunks(TableOrder[i], rows[TableOrder[i]], MaxChunk)
            \o insert_to_db_writes(rows, i + 1)

\* tokio::join!: ready when every write has completed
try_join(ts) ==
    \/ \A i \in 1..Len(ts) : ts[i].status # "pending"
    \/ \E i \in 1..Len(ts) : ts[i].status = "err"
join(ts) == \A i \in 1..Len(ts) : ts[i].status # "pending"

\* for res in vec![...] { res?; } Ok(())
insert_to_db_result_first(ts) ==
    IF ts # <<>> /\ ts[1].status = "err" THEN "Err" ELSE "Ok"
insert_to_db_result(ts) ==
    IF \E i \in 1..Len(ts) : ts[i].status = "err" THEN "Err" ELSE "Ok"

Failed(ts) == {i \in 1..Len(ts) : ts[i].status = "err"}

\* process_transactions is called with a batch
ProcessTransactions(batch) ==
    /\ pc \in {"idle", "done"}
    /\ runs < MaxRuns
    /\ runs' = runs + 1
    /\ transactions' = [i \in 1..Len(batch) |-> chain[batch[i]]]
    /\ prev' = IF runs = 0 THEN NoRun
               ELSE [batch |-> transactions, base |-> base, result |-> result]
    /\ base' = db
    /\ pc' = "parse"
    /\ accs' = EmptyAcc
    /\ versions' = <<>>
    /\ parsed' = [t \in Tables |-> <<>>]
    /\ tasks' = <<>>
    /\ result' = NoResult
    /\ outlived' = FALSE
    /\ UNCHANGED <<dbVars, coin, call, ret, chain, deprecated_tables, failures, applied>>

\* parse_ans writing the rows of each transaction as it has gone through it
ParseNext_writes ==
    /\ pc = "parse"
    /\ Len(versions) < Len(transactions)
    /\ accs' = ParseTransactionBody(accs, transactions[Len(versions) + 1])
    /\ versions' = Append(versions, transactions[Len(versions) + 1].version)
    /\ call' = [fn |-> "parse_ans", no_data |-> <<>>]
    /\ pc' = IF accs'.panicked THEN "panicked" ELSE "parse"
    /\ db' = [t \in Tables |-> Query(t, db[t], Returned(accs')[t])]
    /\ UNCHANGED <<last, nstmts, parsed, coin, ret, runVars>>
\* parse_ans goes through the next transaction of the batch
ParseNext ==
    /\ Len(versions) < Len(transactions)
    /\ ParseTransaction(transactions[Len(versions) + 1])

\* parse_ans returns once it has gone through the batch
ParseDone ==
    /\ Len(versions) = Len(transactions)
    /\ ParseAnsReturns

\* insert_to_db is called and its writes start
InsertToDb ==
    /\ pc = "parsed"
    /\ tasks' = insert_to_db_writes(Cleared(parsed, deprecated_tables), 1)
    /\ pc' = "insert"
    /\ UNCHANGED <<dbVars, accs, versions, parsed, coin, call, ret, chain,
                   deprecated_tables, runs, transactions, result, base, prev,
                   failures, outlived, applied>>

\* one chunk write executes its statement
ExecuteChunk(i) ==
    /\ pc = "insert"
    /\ tasks[i].status = "pending"
    /\ db' = [db EXCEPT ![tasks[i].table] =
                 Query(tasks[i].table, @, tasks[i].items)]
    /\ tasks' = [tasks EXCEPT ![i].status = "ok"]
    /\ outlived' = (outlived \/ Failed(tasks) # {})
    /\ applied' = IF tasks[i].table \in CurrentTables
                  THEN [applied EXCEPT ![tasks[i].table] =
                           @ \cup RowsOf(tasks[i].items)]
                  ELSE applied
    /\ UNCHANGED <<last, nstmts, parseVars, coin, call, ret, chain, deprecated_tables,
                   runs, transactions, result, base, prev, failures>>

\* one chunk write fails: its statement stores nothing
FailChunk(i) ==
    /\ pc = "insert"
    /\ tasks[i].status = "pending"
    /\ failures < MaxFailures
    /\ failures' = failures + 1
    /\ tasks' = [tasks EXCEPT ![i].status = "err"]
    /\ UNCHANGED <<dbVars, parseVars, coin, call, ret, chain, deprecated_tables, runs,
                   transactions, result, base, prev, outlived, applied>>

\* insert_to_db returns and process_transactions returns its outcome
InsertToDbReturns ==
    /\ pc = "insert"
    /\ join(tasks)
    /\ result' =
          IF insert_to_db_result(tasks) = "Ok"
          THEN [tag |-> "Ok",
                start_version |-> transactions[1].version,
                end_version |-> transactions[Len(transactions)].version,
                last_transaction_timestamp |->
                    transactions[Len(transactions)].timestamp]
          ELSE [tag |-> "Err"]
    /\ pc' = "done"
    /\ UNCHANGED <<dbVars, accs, versions, parsed, coin, call, ret, chain,
                   deprecated_tables, runs, transactions, tasks, base, prev,
                   failures, outlived, applied>>

\* the rows parse_ans returns for the one-transaction batch of version v of
\* chain c, none when it panics
RowsOfVersion(c, v) ==
    LET acc == ParseTransactionBody(EmptyAcc, c[v])
    IN IF acc.panicked THEN [t \in Tables |-> <<>>] ELSE Returned(acc)

\* the tables after earlier calls have written the batches of one
\* transaction of versions v..MaxVersion of chain c, in that order
RECURSIVE Processed(_, _, _)
Processed(c, T, v) ==
    IF v > MaxVersion THEN T
    ELSE Processed(c, [t \in Tables |-> Query(t, T[t], RowsOfVersion(c, v)[t])],
                   v + 1)

\* the processor starts on empty tables, or on the tables earlier calls left
Init ==
    /\ last = NoStatement
    /\ nstmts = 0
    /\ pc = "idle"
    /\ accs = EmptyAcc
    /\ versions = <<>>
    /\ parsed = [t \in Tables |-> <<>>]
    /\ coin = CoinDefault
    /\ call = NoCall
    /\ ret = None
    /\ chain \in Chains
    /\ deprecated_tables \in DeprecatedConfigs
    /\ runs = 0
    /\ transactions = <<>>
    /\ tasks = <<>>
    /\ result = NoResult
    /\ base = NoTables
    /\ prev = NoRun
    /\ failures = 0
    /\ outlived = FALSE
    /\ \/ /\ db = NoTables
          /\ applied = [t \in CurrentTables |-> {}]
       \/ /\ deprecated_tables = {}
          /\ db = Processed(chain, NoTables, 1)
          /\ applied = [t \in CurrentTables |->
                           UNION {RowsOf(RowsOfVersion(chain, v)[t]) : v \in Versions}]

Next ==
    \/ \E batch \in Batches : ProcessTransactions(batch)
    \/ ParseNext
    \/ ParseDone
    \/ InsertToDb
    \/ \E i \in 1..Len(tasks) : ExecuteChunk(i)
    \/ \E i \in 1..Len(tasks) : FailChunk(i)
    \/ InsertToDbReturns

Spec == Init /\ [][Next]_vars

\* the rows process_transactions hands to insert_to_db for table t
Written(t) == RowsOf(Cleared(parsed, deprecated_tables)[t])

\* the table a single complete run leaves when it starts from T and writes
\* rows: the monotonic rule for a current-state table, insert-if-absent for
\* an activity table
Single(t, T, rows) ==
    IF t \in CurrentTables
    THEN {s \in T : \A r \in rows : pk(t, r) = pk(t, s) =>
                       r.last_transaction_version < s.last_transaction_version}
         \cup {r \in rows : \A s \in T : pk(t, s) = pk(t, r) =>
                       s.last_transaction_version <= r.last_transaction_version}
    ELSE {IF t = "ans_lookup_v2"
             /\ \E r \in rows : activity_conflict(r) = activity_conflict(s)
          THEN [s EXCEPT !.subdomain_expiration_policy =
                   (CHOOSE r \in rows : activity_conflict(r) = activity_conflict(s))
                       .subdomain_expiration_policy]
          ELSE s : s \in T}
         \cup {r \in rows : \A s \in T : activity_conflict(s) # activity_conflict(r)}

NoDuplicates(t, T) ==
    \A r1, r2 \in T : ConflictTarget(t, r1) = ConflictTarget(t, r2) => r1 = r2

C5_StoredRowIsOrderIndependent ==
    \A t \in CurrentTables : \A r \in applied[t] :
        LET same == {o \in applied[t] : pk(t, o) = pk(t, r)}
        IN Stored(t, db[t], r) =
              {o \in same : \A x \in same :
                  x.last_transaction_version <= o.last_transaction_version}

\* a chunk upsert of the current call carried a lower version than the row
\* an earlier call had stored under its key
C5_Witness ==
    /\ pc = "done"
    /\ \E i \in 1..Len(tasks) :
          /\ tasks[i].table \in CurrentTables
          /\ tasks[i].status = "ok"
          /\ \E r \in RowsOf(tasks[i].items) :
             \E s \in Stored(tasks[i].table, base[tasks[i].table], r) :
                /\ r.last_transaction_version < s.last_transaction_version
                /\ r # [s EXCEPT !.last_transaction_version =
                                     r.last_transaction_version]
                /\ Stored(tasks[i].table, db[tasks[i].table], r) = {s}

\* C8: insert_to_db returns Ok exactly when every one of its writes
\* succeeded; when one write failed it returns an error although the rows of
\* the other writes are stored.
C8_OkOnlyIfEveryWriteSucceeded ==
    pc = "done" =>
        /\ result.tag \in {"Ok", "Err"}
        /\ result.tag = "Ok" <=> \A i \in 1..Len(tasks) : tasks[i].status = "ok"

C8_Witness ==
    /\ pc = "done"
    /\ result.tag = "Err"
    /\ \E i \in 2..Len(tasks) : tasks[i].status = "err"
    /\ \E j \in 1..Len(tasks) :
          /\ tasks[j].status = "ok"
          /\ RowsOf(tasks[j].items) \subseteq db[tasks[j].table]
          /\ RowsOf(tasks[j].items) \cap base[tasks[j].table] = {}

\* C9: while a write of insert_to_db is still pending the call has not
\* returned, and a failed write cancels no sibling: when insert_to_db has
\* returned every write has either executed its statement or failed.
C9_ReturnsAfterAllWrites ==
    /\ pc = "insert" => result = NoResult
    /\ pc = "done" =>
          \A i \in 1..Len(tasks) :
              /\ tasks[i].status \in {"ok", "err"}
              /\ tasks[i].status = "ok" /\ tasks[i].table \in ActivityTables
                    => \A r \in RowsOf(tasks[i].items) :
                          Stored(tasks[i].table, db[tasks[i].table], r) # {}

C9_Witness ==
    /\ pc = "done"
    /\ outlived
    /\ Failed(tasks) # {}
    /\ \E j \in 1..Len(tasks) : tasks[j].status = "ok"

\* ------------------------------------------------------------------------
\* Properties of the token extractors, the decoders and the coin extractor
\* ------------------------------------------------------------------------
\* #[diesel(primary_key(..))] of current_token_pending_claims
current_token_pending_claims_pk(r) ==
    <<r.token_data_id_hash, r.property_version, r.from_address, r.to_address>>

\* #[diesel(primary_key(..))] of coin_activities
coin_activities_pk(r) ==
    <<r.transaction_version, r.event_account_address, r.event_creation_number,
      r.event_sequence_number>>

WriteFn == "CurrentTokenPendingClaim::from_write_table_item"
DeleteFn == "CurrentTokenPendingClaim::from_delete_table_item"
CoinFn == "CoinActivity::from_transaction"
NftFn == "NftPoints::from_transaction"

\* the key of the item is a token offer id
IsOffer(table_item) ==
    /\ table_item.data # <<>>
    /\ table_item.data[1].key_type = TokenOfferIdType
    /\ table_item.data[1].key_parses
\* the value of the item is a token
HoldsToken(table_item) ==
    /\ table_item.data[1].value_type = TokenType
    /\ table_item.data[1].value_parses
OwnerKnown(table_item, table_handle_to_owner) ==
    TableHandleToOwner_get(table_handle_to_owner,
                           standardize_address(table_item.handle)) # {}
\* the write of the offer a delete item removes
WriteOf(table_item) ==
    TableItem(table_item.handle,
              <<[table_item.data[1] EXCEPT !.value_type = TokenType,
                                           !.value_parses = TRUE]>>)

\* C11 as claimed: a token-offer table item whose table handle has no owner
\* in table_handle_to_owner yields no row and no error, from a write table
\* item and from a delete table item alike.
C11_MissingOwnerYieldsNoRowNoError ==
    (/\ pc = "token_returned"
     /\ call.fn \in {WriteFn, DeleteFn}
     /\ IsOffer(call.table_item)
     /\ call.fn = WriteFn => HoldsToken(call.table_item)
     /\ ~OwnerKnown(call.table_item, call.table_handle_to_owner))
    => ret.tag = "None"

\* C13: a delete table item of a token offer whose table handle has an owner
\* yields a row, never an absent one: the row has the composite key of the
\* row the write of that offer yields, amount zero, and the deleting
\* transaction's version as last_transaction_version.
C13_DeleteYieldsZeroedRow ==
    (/\ pc = "token_returned"
     /\ call.fn = DeleteFn
     /\ IsOffer(call.table_item)
     /\ OwnerKnown(call.table_item, call.table_handle_to_owner))
    => /\ ret.tag = "Some"
       /\ ret.current.amount = 0
       /\ ret.current.last_transaction_version = call.txn_version
       /\ \A v \in Versions :
             LET write == from_write_table_item(
                              WriteOf(call.table_item), v, 100 * v,
                              call.table_handle_to_owner)
             IN /\ write.tag = "Some"
                /\ current_token_pending_claims_pk(write.current)
                       = current_token_pending_claims_pk(ret.current)

C13_Witness ==
    /\ pc = "token_returned"
    /\ call.fn = DeleteFn
    /\ call.table_item.handle = A1Short
    /\ call.txn_version = MaxVersion
    /\ ret.tag = "Some"
    /\ ret.current.amount = 0
    /\ ret.current.from_address = standardize_address(A2)

\* C15 as claimed: a transaction that lacks its info block or its timestamp
\* block halts the extractor, whatever its type and whether or not its data
\* section is present.
C15_MissingInfoOrTimestampHalts ==
    /\ (/\ call.fn = CoinFn
        /\ ~call.transaction.info \/ call.transaction.timestamp = <<>>)
       => pc = "coin_panicked"
    /\ (/\ call.fn = NftFn
        /\ ~call.transaction.info \/ call.transaction.timestamp = <<>>)
       => pc = "token_panicked"

\* C17 as claimed: for a type tag outside its supported set each decoder
\* returns None, never an error.
C17_UnsupportedTagIsNone ==
    /\ (/\ call.fn = "FeeStatement::from_event"
        /\ call.data_type # FeeStatementType)
       => ret.tag = "None"
    /\ (/\ call.fn = "FungibleAssetEvent::from_event"
        /\ call.data_type \notin FungibleAssetEventTypes)
       => ret.tag = "None"
    /\ (/\ call.fn = "V2FungibleAssetResource::from_resource"
        /\ ~is_resource_supported(call.data_type))
       => ret.tag = "None"

\* the user transactions from_transaction builds a gas row for
IsUserCall ==
    /\ call.fn = CoinFn
    /\ call.transaction.txn_data = "User"
    /\ call.transaction.info
    /\ call.transaction.timestamp # <<>>
    /\ call.transaction.request # <<>>

GasRows(rows) == {i \in 1..Len(rows) : rows[i].is_gas_fee}

\* C18 as claimed: the amount of the gas row is the product
\* gas_used * gas_unit_price for all u64 values of the factors, with no
\* wrap-around and no abort when the product is past the u64 range.
C18_GasAmountIsProduct ==
    IsUserCall =>
        /\ ~(coin.panicked /\ coin.cause = "overflow")
        /\ ~coin.panicked =>
              \A i \in GasRows(coin.coin_activities) :
                  coin.coin_activities[i].amount
                      = call.transaction.gas_used
                            * call.transaction.request[1].gas_unit_price

\* storage_fee_refund_octas of the first fee statement event that parses, 0
\* when there is none
FirstRefund(events) ==
    LET fs == {i \in 1..Len(events) :
                  /\ events[i].type_str = FeeStatementType
                  /\ events[i].parses}
    IN IF fs = {} THEN 0
       ELSE events[CHOOSE i \in fs : \A j \in fs : i <= j].amount

EstablishedGuids(transaction) ==
    LET changes == FilterChanges(transaction.changes)
        stores == {i \in 1..Len(changes) :
                      /\ changes[i].change = "WriteResource"
                      /\ CoinBalance_from_write_resource(
                             changes[i], transaction.version).tag = "Some"}
    IN UNION {CoinBalance_from_write_resource(
                  changes[i], transaction.version).current.event_to_coin_type :
              i \in stores}

\* C20: when a write resource change of a transaction maps an event GUID to
\* coin type X, every deposit or withdraw event of the transaction from that
\* GUID yields a row with coin_type X and the event's amount, wherever the
\* change stands in the write set.
C20_EventTakesCoinTypeOfItsGuid ==
    (call.fn = CoinFn /\ pc = "coin_returned") =>
        \A g \in EstablishedGuids(call.transaction) :
            \A i \in 1..Len(call.transaction.events) :
                LET event == call.transaction.events[i] IN
                (/\ event.type_str \in {"0x1::coin::DepositEvent",
                                        "0x1::coin::WithdrawEvent"}
                 /\ standardize_address(event.account_address) = g.addr
                 /\ event.creation_number = g.creation_num)
                => \E j \in 1..Len(coin.coin_activities) :
                      LET row == coin.coin_activities[j] IN
                      /\ ~row.is_gas_fee
                      /\ row.event_index = i - 1
                      /\ row.coin_type = g.coin_type
                      /\ row.amount = event.amount

C20_Witness ==
    /\ call.fn = CoinFn
    /\ pc = "coin_returned"
    /\ Len(call.transaction.changes) = 2
    /\ call.transaction.changes[1].change = "WriteTableItem"
    /\ call.transaction.changes[2].tag = "CoinStore"
    /\ Len(call.transaction.events) = 2
    /\ Len(coin.coin_activities) = 3
    /\ \A j \in 2..3 :
          /\ coin.coin_activities[j].coin_type = "X"
          /\ coin.coin_activities[j].amount
                 = call.transaction.events[j - 1].amount

AccActivities(acc) ==
    RowsOf(acc.all_ans_lookups) \cup RowsOf(acc.all_ans_primary_names)
    \cup RowsOf(acc.all_ans_lookups_v2) \cup RowsOf(acc.all_ans_primary_names_v2)

\* C16: a transaction without its data section yields no row, adds exactly
\* one to the unknown-type counter of the extractor, raises no error, and
\* leaves the extractor going on to the later transactions.
C16_NoDataTransactionIsSkipped ==
    /\ call.fn = CoinFn =>
          IF call.transaction.txn_data = "None"
          THEN /\ pc = "coin_returned"
               /\ coin = [CoinDefault EXCEPT !.unknown_type_count = 1]
          ELSE coin.unknown_type_count = 0
    /\ call.fn = NftFn =>
          IF call.transaction.txn_data = "None"
          THEN /\ pc = "token_returned"
               /\ ret.row.tag = "None"
               /\ ret.unknown_type_count = 1
          ELSE ret.unknown_type_count = 0
    /\ call.fn = "parse_ans" =>
          /\ accs.unknown_type_count = Len(call.no_data)
          /\ \A r \in AccActivities(accs) :
                r.transaction_version \notin RowsOf(call.no_data)
          /\ \A t \in CurrentTables : \A r \in RowsOf(accs.extracted[t]) :
                r.last_transaction_version \notin RowsOf(call.no_data)
          /\ pc = "panicked" =>
                versions[Len(versions)] \notin RowsOf(call.no_data)

C16_Witness ==
    /\ call.fn = "parse_ans"
    /\ pc = "parsed"
    /\ Len(versions) = 2
    /\ call.no_data = <<versions[1]>>
    /\ accs.unknown_type_count = 1
    /\ \E r \in AccActivities(accs) : r.transaction_version = versions[2]

\* C14: no statement removes a stored row: the keys stored in a table are
\* still stored after every write.
C14_NoRowIsRemoved ==
    [][\A t \in Tables : \A r \in db[t] : Stored(t, db'[t], r) # {}]_vars

C14_Witness ==
    /\ nstmts = MaxStatements
    /\ last.table \in CurrentTables
    /\ last.before # {}
    /\ db[last.table] # last.before
    /\ \A r \in last.before : Now(last.table, r) # {}
    /\ \A r \in LastRows : r.is_deleted /\ Before(last.table, r) # {}

\* ------------------------------------------------------------------------
\* Coin types, projections, timestamps and addresses
\* ------------------------------------------------------------------------
CoinEventTypes == {"0x1::coin::DepositEvent", "0x1::coin::WithdrawEvent"}

\* the deposit and withdraw events of a transaction whose GUID no write
\* resource change of the transaction maps to a coin type
UnmappedEvents(transaction) ==
    {i \in 1..Len(transaction.events) :
        /\ transaction.events[i].type_str \in CoinEventTypes
        /\ \A g \in EstablishedGuids(transaction) :
              <<g.addr, g.creation_num>>
                  # <<standardize_address(transaction.events[i].account_address),
                      transaction.events[i].creation_number>>}

\* nothing but a missing type mapping stands in the way of the call: the
\* transaction is a genesis or user transaction with info and timestamp,
\* its resources and coin events deserialize, the gas product is in range
WellFormedCoinCall ==
    /\ call.fn = CoinFn
    /\ call.transaction.txn_data \in {"Genesis", "User"}
    /\ call.transaction.info
    /\ call.transaction.timestamp # <<>>
    /\ \A i \in 1..Len(call.transaction.changes) :
          LET wsc == call.transaction.changes[i] IN
          wsc.change = "WriteResource" =>
              /\ Unwrap(CoinInfo_from_write_resource(wsc, call.transaction.version))
              /\ Unwrap(CoinBalance_from_write_resource(wsc, call.transaction.version))
    /\ \A i \in 1..Len(call.transaction.events) :
          Unwrap(CoinEvent_from_event(call.transaction.events[i]))
    /\ call.transaction.request # <<>> =>
          call.transaction.gas_used * call.transaction.request[1].gas_unit_price
              < U64Limit

\* C21: a deposit or withdraw event whose GUID has no type mapping in the
\* index still yields an activity row, with coin_type the sentinel
\* "0x1::coin::UnknownCoinType" and the event's amount; the missing mapping
\* raises no error, the call returns.
C21_UnmappedEventGetsSentinel ==
    /\ WellFormedCoinCall => pc = "coin_returned"
    /\ (call.fn = CoinFn /\ pc = "coin_returned") =>
          \A i \in UnmappedEvents(call.transaction) :
              \E j \in 1..Len(coin.coin_activities) :
                  LET row == coin.coin_activities[j] IN
                  /\ ~row.is_gas_fee
                  /\ row.event_index = i - 1
                  /\ row.coin_type = "0x1::coin::UnknownCoinType"
                  /\ row.amount = call.transaction.events[i].amount

C21_Witness ==
    /\ WellFormedCoinCall
    /\ pc = "coin_returned"
    /\ UnmappedEvents(call.transaction) = {1, 2}
    /\ call.transaction.events[1].type_str = "0x1::coin::DepositEvent"
    /\ call.transaction.events[2].type_str = "0x1::coin::WithdrawEvent"
    /\ Len(coin.coin_activities) = 3
    /\ \A j \in 2..3 : coin.coin_activities[j].coin_type = UnknownCoinType

\* the v2 table a v1 table is projected into
V2Of(t) ==
    CASE t = "current_ans_lookup" -> "current_ans_lookup_v2"
      [] t = "ans_lookup" -> "ans_lookup_v2"
      [] t = "current_ans_primary_name" -> "current_ans_primary_name_v2"
      [] t = "ans_primary_name" -> "ans_primary_name_v2"
V1Tables ==
    {"current_ans_lookup", "ans_lookup", "current_ans_primary_name",
     "ans_primary_name"}

\* the version column of a row of table t
VersionOf(t, r) ==
    IF t \in CurrentTables THEN r.last_transaction_version
    ELSE r.transaction_version

\* o is the v2 shape of the v1 row r of table t
ProjectionOf(t, r, o) ==
    /\ o.token_standard = "v1"
    /\ VersionOf(V2Of(t), o) = VersionOf(t, r)
    /\ o.domain = r.domain
    /\ o.subdomain = r.subdomain
    /\ o.registered_address = r.registered_address
    /\ o.is_deleted = r.is_deleted
    /\ t \in ActivityTables =>
          o.write_set_change_index = r.write_set_change_index

C23_NoWriteBeforeExtractionEnds ==
    pc \in {"parse", "parsed", "panicked"} =>
        /\ tasks = <<>>
        /\ db = base

C23_Witness ==
    /\ pc = "panicked"
    /\ Len(versions) = 2
    /\ AccActivities(accs) # {}
    /\ runs = 2
    /\ db = base
    /\ db # NoTables

\* C24 as claimed: every batch given to process_transactions ends in one of
\* two outcomes, never in a third: when all writes succeed, a result record
\* with the start_version and end_version of the call and the timestamp of
\* the last transaction of the batch; when a write fails, an error and no
\* result record.
C24_EveryBatchEndsInResultOrError ==
    /\ pc # "panicked"
    /\ pc = "done" =>
          IF Failed(tasks) = {}
          THEN result =
                  [tag |-> "Ok",
                   start_version |-> transactions[1].version,
                   end_version |-> transactions[Len(transactions)].version,
                   last_transaction_timestamp |->
                       transactions[Len(transactions)].timestamp]
          ELSE result = [tag |-> "Err"]

\* the string of n zeros
Zeros(n) == [i \in 1..n |-> "0"]

\* C25: standardize_address is idempotent, it maps "0x1" and "1" to the
\* same value, and for an input of at most 64 characters after the optional
\* 0x prefix its result is 0x followed by exactly 64 characters.
C25_StandardizeAddressIsIdempotent ==
    call.fn = "standardize_address" =>
        /\ ret.activity = ret.current
        /\ call.handle \in {<<"0", "x", "1">>, <<"1">>} =>
              ret.current = <<"0", "x">> \o Zeros(63) \o <<"1">>
        /\ Len(strip_prefix(call.handle)) <= 64 =>
              /\ Len(ret.current) = 66
              /\ SubSeq(ret.current, 1, 2) = <<"0", "x">>

C25_Witness ==
    /\ call.fn = "standardize_address"
    /\ Len(call.handle) = 4
    /\ SubSeq(call.handle, 1, 2) = <<"0", "x">>
    /\ call.handle # ret.current
    /\ Len(ret.current) = 66
    /\ ret.activity = ret.current

\* the decimal value of the strings the payloads are made of
DecimalValue(s) ==
    CASE s = <<"0">> -> 0
      [] s = <<"1", "0", "0">> -> 100
      [] s = <<"5", "0", "0", "0">> -> 5000
      [] s = <<"0", "4", "2">> -> 42

\* C26: a decoded Supply payload has current equal to the decimal value of
\* its "current" string, and get_maximum is None exactly when the "vec"
\* container is empty and otherwise the decimal value of its first element.
C26_SupplyDecodesCurrentAndMaximum ==
    (call.fn = "FungibleAssetSupply" /\ ret.tag = "Some") =>
        /\ ret.current.current = DecimalValue(call.payload.current.s)
        /\ (ret.activity = <<>>) = (call.payload.maximum.vec = <<>>)
        /\ call.payload.maximum.vec # <<>> =>
              ret.activity = <<DecimalValue(call.payload.maximum.vec[1].s)>>

C26_Witness ==
    /\ call.fn = "FungibleAssetSupply"
    /\ ret.tag = "Some"
    /\ call.payload.current = JsonString(<<"1", "0", "0">>)
    /\ Len(call.payload.maximum.vec) = 2
    /\ call.payload.maximum.vec[1] = JsonString(<<"5", "0", "0", "0">>)
    /\ call.payload.maximum.vec[2] = JsonString(<<"0">>)
    /\ ret.current.current = 100
    /\ ret.activity = <<5000>>

Min(a, b) == IF a <= b THEN a ELSE b

\* a Timestamp chrono can hold: nanos within a second, seconds not before
\* the first NaiveDateTime
Representable(ts) ==
    /\ ts.nanos >= 0
    /\ ts.nanos < NanosPerSec
    /\ ts.seconds >= ChronoMinSecs

\* C27: parse_timestamp and parse_timestamp_secs clamp the seconds to
\* MAX_TIMESTAMP_SECS: the time they return has min(input seconds,
\* MAX_TIMESTAMP_SECS) seconds, and an input below the maximum is returned
\* unchanged; parse_timestamp_secs returns for every u64, parse_timestamp
\* for every Timestamp a NaiveDateTime can hold.
C27_SecondsAreClampedToMaximum ==
    /\ call.fn = "parse_timestamp" =>
          /\ Representable(call.ts) => ret.tag = "Some"
          /\ ret.tag = "Some" =>
                /\ ret.current.seconds
                       = Min(call.ts.seconds, MAX_TIMESTAMP_SECS)
                /\ call.ts.seconds < MAX_TIMESTAMP_SECS =>
                      /\ ret.current.seconds = call.ts.seconds
                      /\ ret.current.nanos = call.ts.nanos
    /\ call.fn = "parse_timestamp_secs" =>
          /\ ret.tag = "Some"
          /\ ret.current.seconds = Min(call.ts, MAX_TIMESTAMP_SECS)
          /\ ret.current.nanos = 0

C27_Witness ==
    /\ call.fn = "parse_timestamp_secs"
    /\ call.ts >= I64Limit
    /\ ret.tag = "Some"
    /\ ret.current.seconds = MAX_TIMESTAMP_SECS

\* the events of the transaction of the call whose GUID its own write set
\* does not map and the write set of the transaction before it does
MappedEarlierOnly ==
    {i \in UnmappedEvents(call.transaction) :
        \E g \in EstablishedGuids(call.earlier) :
            <<g.addr, g.creation_num>>
                = <<standardize_address(call.transaction.events[i].account_address),
                    call.transaction.events[i].creation_number>>}

\* C28: the event-to-coin-type index of CoinActivity::from_transaction is
\* scoped to one transaction: a mapping established only by the write set
\* of an earlier transaction of the batch is not used, and the row of the
\* event carries the unknown-coin-type sentinel.
C28_IndexIsScopedToOneTransaction ==
    (/\ call.fn = CoinFn
     /\ "earlier" \in DOMAIN call
     /\ pc = "coin_returned") =>
        \A i \in MappedEarlierOnly :
            \E j \in 1..Len(coin.coin_activities) :
                LET row == coin.coin_activities[j] IN
                /\ ~row.is_gas_fee
                /\ row.event_index = i - 1
                /\ row.coin_type = UnknownCoinType
                /\ \A g \in EstablishedGuids(call.earlier) :
                      row.coin_type # g.coin_type

C28_Witness ==
    /\ call.fn = CoinFn
    /\ "earlier" \in DOMAIN call
    /\ pc = "coin_returned"
    /\ MappedEarlierOnly = {1}
    /\ EstablishedGuids(call.transaction) # {}
    /\ Len(coin.coin_activities) = 2
    /\ coin.coin_activities[2].coin_type = UnknownCoinType

\* the row r of activity table t is one the write set change wsc yields
YieldsRow(wsc, t, r) ==
    /\ wsc.change # "None"
    /\ r.is_deleted = (wsc.change = "DeleteTableItem")
    /\ wsc.tag = (IF t = "ans_lookup" THEN "name_records"
                  ELSE IF t \in {"ans_primary_name", "ans_primary_name_v2"}
                       THEN "primary_names"
                  ELSE IF r.token_standard = "v1" THEN "name_records"
                  ELSE "NameRecord")
    /\ IF wsc.tag = "primary_names" THEN r.registered_address = wsc.address
       ELSE r.domain = wsc.domain

\* C29 as claimed: the write_set_change_index parse_ans records for a write
\* set change is the position of the change in the full change list of the
\* transaction, the index WriteSetChange::from_write_set_changes gives it,
\* also when an earlier entry of the list carries no change.
C29_IndexIsPositionInFullList ==
    (call.fn = "parse_ans" /\ pc = "parsed") =>
        \A t \in ActivityTables : \A r \in RowsOf(parsed[t]) :
            r.write_set_change_index >= 0 =>
                \E w \in RowsOf(ret.current) :
                    /\ w.transaction_version = r.transaction_version
                    /\ w.index = r.write_set_change_index
                    /\ YieldsRow(w.detail, t, r)

\* the table each deprecated-table flag stands for
TableOfFlag(f) ==
    CASE f = "ANS_PRIMARY_NAME" -> "ans_primary_name"
      [] f = "ANS_PRIMARY_NAME_V2" -> "ans_primary_name_v2"
      [] f = "ANS_LOOKUP" -> "ans_lookup"
      [] f = "CURRENT_ANS_LOOKUP" -> "current_ans_lookup"
      [] f = "CURRENT_ANS_PRIMARY_NAME" -> "current_ans_primary_name"

\* the rows of the writes to table t, from write i on, in the order of the
\* writes
RECURSIVE TaskRows(_, _)
TaskRows(t, i) ==
    IF i > Len(tasks) THEN <<>>
    ELSE (IF tasks[i].table = t THEN tasks[i].items ELSE <<>>)
             \o TaskRows(t, i + 1)

\* C30: for each deprecated-table flag that is set, process_transactions
\* writes no row to the table of the flag, which stays as it was, and the
\* rows it writes to every other table are the rows parse_ans returned for
\* that table, as when no flag is set.
C30_DeprecatedTablesAreNotWritten ==
    pc \in {"insert", "done"} =>
        \A t \in Tables :
            IF \E f \in deprecated_tables : TableOfFlag(f) = t
            THEN /\ TaskRows(t, 1) = <<>>
                 /\ db[t] = base[t]
            ELSE TaskRows(t, 1) = parsed[t]

C30_Witness ==
    /\ pc = "done"
    /\ result.tag = "Ok"
    /\ deprecated_tables = {"ANS_LOOKUP"}
    /\ parsed["ans_lookup"] # <<>>
    /\ db["ans_lookup"] = {}
    /\ db["ans_lookup_v2"] # {}
    /\ db["current_ans_lookup"] # {}

====
